---- MODULE Spec2Model ----
(***************************************************************************)
(* Background job execution engine: the job store (claim, cancel, update,  *)
(* recovery), the worker's dispatch of a claimed job, and the two-phase    *)
(* link processing pipeline (bounded concurrent I/O, batched transactional *)
(* writes, cooperative cancellation).                                      *)
(***************************************************************************)
EXTENDS Integers, Sequences, FiniteSets, TLC

(* ---------------------------- bounds ----------------------------------- *)
MaxLinks == 3            \* links of the project
MaxPayload == 2          \* length of an explicit payload.link_ids
MaxJobs == 2             \* job rows of the job-store specification
MaxCrashes == 1          \* process crashes followed by a restart
MaxUrls == 2             \* urls of the crawled web
MaxPages == 2            \* largest max_pages_to_crawl of a source
MaxCrawlDepth == 2       \* largest max_crawl_depth of a source
MaxMatches == 2          \* urls one kind of selector matches on a page
MaxFetch == 3            \* length of a fetch job's payload.source_ids
MaxSources == 3          \* sources of the project a submission selects from
\* Scaled-down program constants (10 in services/background_jobs.py:116; the
\* concurrency limit is set in services/rate_limiter.py).
DB_WRITE_BATCH_SIZE == 2
CONCURRENT_REQUESTS == 2

Links == 1..MaxLinks
Urls == 1..MaxUrls
Jobs == 1..MaxJobs
Callers == {1, 2}        \* callers of the claim operation (the worker is 1)
Worker == 1
TheJob == 1              \* the link-processing job of the pipeline specification
NoJob == 0
NoEntry == 0             \* NULL lorebook_entry_id
NoKind == "none"
NoError == "none"        \* NULL error_message
NoException == "none"
NoUrl == 0               \* None as a url
NoCur == [src |-> NoUrl]
NoCrawlResult == [status |-> "none"]
NoProgress == [processed_items |-> 0, total_items |-> 0]
NoSubmission == [outcome |-> "none"]
NoRow == [task_name |-> NoKind]
NoRead == [outcome |-> "none"]
NoFetch == [source_ids |-> <<>>]
NoFetchResult == [sources_fetched |-> -1, sources_failed |-> -1]
\* CreateProjectSource defaults (db/sources.py)
DefaultLimits == [pages |-> 1, depth |-> 1, exclusions |-> {}]

(* ---------------------------- enumerations ----------------------------- *)
JobStatus == {"pending", "in_progress", "completed", "failed", "cancelling", "canceled"}
LinkStatus == {"pending", "processing", "completed", "failed", "skipped"}
TerminalStatus == {"completed", "failed", "canceled"}
Outcomes == {"success", "skipped", "failed"}
NoResult == [created |-> -1, skipped |-> -1, failed |-> -1]
TaskName ==
    {"discover_and_crawl_sources", "confirm_links", "process_project_entries",
     "generate_search_params", "rescan_links", "fetch_source_content",
     "generate_character_card", "regenerate_character_field"}
\* JOB_HANDLERS: the task names its literal has as keys, each with the name of
\* its handler function.
JOB_HANDLERS == [k \in TaskName \cup {"generate_lorebook_entries"} |-> k]
\* The handlers that are one pass without a queue or a pipeline
SimpleTasks ==
    {"confirm_links", "generate_search_params", "fetch_source_content",
     "generate_character_card", "regenerate_character_field"}
\* Messages of the exceptions the simple handlers raise
Messages == {"Invalid payload", "Failed to generate"}
\* payload.link_ids; {} stands for None or an empty list (both falsy: every
\* processable link is taken)
PayloadChoices == {1..n : n \in 0..MaxPayload} \cap SUBSET Links

VARIABLES
    \* ---- persisted rows
    jobStatus,        \* BackgroundJob.status per job id ("none": no such row)
    jobPayload,       \* ProcessProjectEntriesPayload.link_ids of TheJob
    jobProcessed,     \* BackgroundJob.processed_items of TheJob
    jobResult,        \* BackgroundJob.result of TheJob
    projectExists,    \* the job's Project row exists
    projectStatus,    \* Project.status
    linkStatus,       \* Link.status
    linkEntry,        \* Link.lorebook_entry_id: the number of the referenced entry
    entryCount,       \* per link: the LorebookEntry rows created from it are
                      \* numbered 1..entryCount[l] (ids are fresh uuid4 values)
    \* ---- process state (lost on a crash)
    recovered,        \* the on_startup hook recover_stale_datas has run
    crashes,
    holding,          \* per caller: the job it received from the claim
    hpc,              \* position of process_background_job / the handler
    dispatch,         \* how the last dispatch of the worker ended
    selected,         \* links_to_process
    event,            \* cancellation_event
    poller,           \* polling_task is alive
    sem,              \* free permits of the semaphore
    task,             \* per link: position of process_with_limiter
    taskResult,       \* per link: what its task returned
    doneQ,            \* finished tasks in completion order (as_completed)
    batch_results,
    total_processed,
    counts,           \* total_created / total_skipped / total_failed
    \* ---- history
    writes,           \* per link: committed Phase 2 writes in this run
    cancelReq,        \* a cancel request was accepted while in_progress
    handed,           \* per job: callers that received it since it last became pending
    \* ---- job rows, continued
    jobKind,          \* BackgroundJob.task_name per job id
    jobError,         \* BackgroundJob.error_message per job id
    \* ---- the dispatcher and the handlers without a pipeline
    exc,              \* the exception that left the handler (its message)
    waited,           \* the running handler has completed a wait_for_rate_limit
    \* ---- crawl engine: persisted rows
    linkUrls,         \* urls of the project's Link rows
    sources,          \* ProjectSource rows, named by their url
    withSelectors,    \* sources whose link_extraction_selector is set
    edges,            \* source hierarchy rows <<parent, child>>
    crawlResult,      \* BackgroundJob.result of a discover or rescan job
    crawlProgress,    \* its processed_items and total_items
    limits,           \* source -> its max_pages_to_crawl, max_crawl_depth, exclusions
    \* ---- crawl engine: the handler's locals
    queue,
    visited_source_urls,
    all_new_links_this_job,
    all_existing_links_found_again,
    total_new_sources,
    total_selectors_generated,
    failed_source_ids,
    cur,              \* the source being crawled inside its transaction
    \* ---- crawl engine: history
    scenario,         \* the web is the fixed end-to-end scenario
    \* ---- submission of a discover-and-crawl job
    submission,
    \* ---- reading a job row
    db_row,           \* the row the query returns: the stored columns
    readJob,          \* what the read returned to its caller
    \* ---- fetch_source_content
    fetch             \* the handler's locals and the job's result

dbVars == <<jobStatus, jobPayload, jobProcessed, jobResult, projectExists,
            projectStatus, linkStatus, linkEntry, entryCount>>
handlerVars == <<hpc, dispatch, selected, event, poller, sem, task, taskResult,
                 doneQ, batch_results, total_processed, counts, writes>>
crawlDb == <<linkUrls, sources, withSelectors, edges, crawlResult, crawlProgress,
            limits>>
crawlLocals == <<queue, visited_source_urls, all_new_links_this_job,
                 all_existing_links_found_again, total_new_sources,
                 total_selectors_generated, failed_source_ids, cur>>
crawlHist == <<scenario>>
crawlVars == <<crawlDb, crawlLocals, crawlHist>>
apiVars == <<submission, db_row, readJob, fetch>>
extVars == <<jobKind, jobError, exc, waited, crawlVars, apiVars>>
vars == <<jobStatus, jobPayload, jobProcessed, jobResult, projectExists,
          projectStatus, linkStatus, linkEntry, entryCount, recovered, crashes,
          holding, hpc, dispatch, selected, event, poller, sem, task, taskResult,
          doneQ, batch_results, total_processed, counts, writes, cancelReq,
          handed, jobKind, jobError, exc, waited, linkUrls, sources,
          withSelectors, edges, crawlResult, crawlProgress, limits, queue,
          visited_source_urls,
          all_new_links_this_job, all_existing_links_found_again,
          total_new_sources, total_selectors_generated, failed_source_ids, cur,
          scenario, submission, db_row, readJob, fetch>>

(* ---------------------------- helpers ---------------------------------- *)
Min(S) == CHOOSE x \in S : \A y \in S : x <= y

ZeroCounts == [created |-> 0, skipped |-> 0, failed |-> 0]

\* The handler's local state before / after a run.
HandlerIdle ==
    /\ hpc = "idle"
    /\ selected = {}
    /\ event = FALSE
    /\ poller = FALSE
    /\ sem = 0
    /\ task = [l \in Links |-> "none"]
    /\ taskResult = [l \in Links |-> "unset"]
    /\ doneQ = <<>>
    /\ batch_results = <<>>
    /\ total_processed = 0
    /\ counts = ZeroCounts
    /\ writes = [l \in Links |-> 0]

\* Every coroutine of the handler is gone.
HandlerReset ==
    /\ hpc' = "idle"
    /\ selected' = {}
    /\ event' = FALSE
    /\ poller' = FALSE
    /\ sem' = 0
    /\ task' = [l \in Links |-> "none"]
    /\ taskResult' = [l \in Links |-> "unset"]
    /\ doneQ' = <<>>
    /\ batch_results' = <<>>
    /\ total_processed' = 0
    /\ counts' = ZeroCounts
    /\ writes' = [l \in Links |-> 0]

\* The crawl handlers' locals before / after a run.
CrawlIdle ==
    /\ queue = <<>>
    /\ visited_source_urls = {}
    /\ all_new_links_this_job = {}
    /\ all_existing_links_found_again = {}
    /\ total_new_sources = 0
    /\ total_selectors_generated = 0
    /\ failed_source_ids = {}
    /\ cur = NoCur

CrawlReset ==
    /\ queue' = <<>>
    /\ visited_source_urls' = {}
    /\ all_new_links_this_job' = {}
    /\ all_existing_links_found_again' = {}
    /\ total_new_sources' = 0
    /\ total_selectors_generated' = 0
    /\ failed_source_ids' = {}
    /\ cur' = NoCur

(* ============================ Job Store ================================ *)

\* The rows a claim may select: status = 'pending' (rows being claimed by
\* another caller are locked and skipped).
PendingJobsNoSkip(st) == {j \in Jobs : st[j] \in {"pending", "in_progress"}}
PendingJobs(st) == {j \in Jobs : st[j] = "pending"}

\* get_and_lock_pending_background_job: the oldest pending row is set to
\* in_progress and returned in one atomic step.
get_and_lock_pending_background_job(c) ==
    /\ holding[c] = NoJob
    /\ PendingJobs(jobStatus) # {}
    /\ LET j == Min(PendingJobs(jobStatus)) IN
        /\ jobStatus' = [jobStatus EXCEPT ![j] = "in_progress"]
        /\ holding' = [holding EXCEPT ![c] = j]
        /\ handed' = [handed EXCEPT ![j] = @ \cup {c}]

\* update_background_job: UPDATE ... SET status = s WHERE id = j, whatever the
\* stored status is; a missing row is left missing.
update_background_job(st, j, s) ==
    IF st[j] = "none" THEN st ELSE [st EXCEPT ![j] = s]

\* cancel_job: the status the request writes (the request is one transaction).
CancelTarget(s) == IF s = "in_progress" THEN "cancelling" ELSE "canceled"

cancel_job(j) ==
    /\ recovered                       \* the API serves after on_startup
    /\ jobStatus[j] # "none"           \* else NotFoundException
    /\ jobStatus[j] \notin TerminalStatus  \* else HTTPException 400
    /\ jobStatus' = update_background_job(jobStatus, j, CancelTarget(jobStatus[j]))
    /\ cancelReq' = (cancelReq \/ (j = TheJob /\ jobStatus[j] = "in_progress"))

\* reset_in_progress_jobs_to_pending
ResetJobInProgressOnly(s) == IF s = "in_progress" THEN "pending" ELSE s
ResetJob(s) == IF s \in {"in_progress", "cancelling"} THEN "pending" ELSE s

reset_in_progress_jobs_to_pending(st) == [j \in Jobs |-> ResetJob(st[j])]

\* reset_processing_links_to_pending: UPDATE "Link" SET status = 'pending'
\* WHERE status = 'processing'
reset_links_to_pending(ls) == [l \in Links |-> "pending"]
reset_processing_links_to_pending(ls) ==
    [l \in Links |-> IF ls[l] = "processing" THEN "pending" ELSE ls[l]]

\* recover_stale_datas: both resets in one transaction, once per start.
recover_stale_datas ==
    /\ ~recovered
    /\ recovered' = TRUE
    /\ jobStatus' = reset_in_progress_jobs_to_pending(jobStatus)
    /\ linkStatus' = reset_processing_links_to_pending(linkStatus)
    /\ handed' = [j \in Jobs |->
                    IF jobStatus[j] \in {"in_progress", "cancelling"} THEN {} ELSE handed[j]]

(* ===================== job-store specification ========================= *)
\* Several concurrent callers of the claim operation against the job table.

InitButHierarchy ==
    /\ jobStatus = [j \in Jobs |-> "none"]
    /\ jobPayload = {}
    /\ jobProcessed = 0
    /\ jobResult = NoResult
    /\ projectExists = TRUE
    /\ projectStatus = "links_extracted"
    /\ linkStatus = [l \in Links |-> "pending"]
    /\ linkEntry = [l \in Links |-> NoEntry]
    /\ entryCount = [l \in Links |-> 0]
    /\ recovered = FALSE
    /\ crashes = 0
    /\ holding = [c \in Callers |-> NoJob]
    /\ HandlerIdle
    /\ dispatch = "idle"
    /\ cancelReq = FALSE
    /\ handed = [j \in Jobs |-> {}]
    /\ jobKind = [j \in Jobs |-> NoKind]
    /\ jobError = [j \in Jobs |-> NoError]
    /\ exc = NoException
    /\ waited = FALSE
    /\ linkUrls = {}
    /\ withSelectors = {}
    /\ crawlResult = NoCrawlResult
    /\ crawlProgress = NoProgress
    /\ limits = [u \in {} |-> DefaultLimits]
    /\ CrawlIdle
    /\ scenario = FALSE
    /\ submission = NoSubmission
    /\ readJob = NoRead
    /\ fetch = NoFetch

\* A new project: no source, no hierarchy row.
InitStore ==
    /\ InitButHierarchy
    /\ sources = {}
    /\ edges = {}
    /\ db_row = NoRow

storeFrame == <<jobPayload, jobProcessed, jobResult, projectExists, projectStatus,
                linkEntry, entryCount, handlerVars>>

\* create_background_job: a new row, pending; ids in creation order.
create_background_job(j) ==
    /\ recovered
    /\ jobStatus[j] = "none"
    /\ \A k \in Jobs : k < j => jobStatus[k] # "none"
    /\ jobStatus' = [jobStatus EXCEPT ![j] = "pending"]

StoreCreate ==
    /\ \E j \in Jobs : create_background_job(j)
    /\ UNCHANGED <<storeFrame, linkStatus, recovered, crashes, holding, cancelReq, handed>>
    /\ UNCHANGED extVars

StoreClaim ==
    /\ \E c \in Callers : get_and_lock_pending_background_job(c)
    /\ UNCHANGED <<storeFrame, linkStatus, recovered, crashes, cancelReq>>
    /\ UNCHANGED extVars

StoreCancel ==
    /\ \E j \in Jobs : cancel_job(j)
    /\ UNCHANGED <<storeFrame, linkStatus, recovered, crashes, holding, handed>>
    /\ UNCHANGED extVars

\* The caller's handler ends and has written a final status for its job.
StoreFinish ==
    /\ \E c \in Callers, s \in TerminalStatus :
        /\ holding[c] # NoJob
        /\ jobStatus' = update_background_job(jobStatus, holding[c], s)
        /\ holding' = [holding EXCEPT ![c] = NoJob]
    /\ UNCHANGED <<storeFrame, linkStatus, recovered, crashes, cancelReq, handed>>
    /\ UNCHANGED extVars

StoreRecover ==
    /\ recover_stale_datas
    /\ UNCHANGED <<storeFrame, crashes, holding, cancelReq>>
    /\ UNCHANGED extVars

\* The process dies and is started again: no caller survives.
StoreRestart ==
    /\ crashes < MaxCrashes
    /\ crashes' = crashes + 1
    /\ recovered' = FALSE
    /\ holding' = [c \in Callers |-> NoJob]
    /\ UNCHANGED <<storeFrame, jobStatus, linkStatus, cancelReq, handed>>
    /\ UNCHANGED extVars

NextStore ==
    \/ StoreCreate
    \/ StoreClaim
    \/ StoreCancel
    \/ StoreFinish
    \/ StoreRecover
    \/ StoreRestart

SpecStore == InitStore /\ [][NextStore]_vars


(* ======================= pipeline specification ======================== *)
\* One worker, one link-processing job, the API (create, cancel), project
\* deletion, and crashes followed by a restart.

Init == InitStore

\* create_process_project_entries_job: the project must exist.
create_process_project_entries_job ==
    /\ recovered
    /\ projectExists
    /\ create_background_job(TheJob)
    /\ \E p \in PayloadChoices : jobPayload' = p
    /\ jobKind' = [jobKind EXCEPT ![TheJob] = "process_project_entries"]
    /\ UNCHANGED <<jobProcessed, jobResult, projectExists, projectStatus, linkStatus,
                   linkEntry, entryCount, recovered, crashes, holding, handlerVars,
                   cancelReq, handed>>
    /\ UNCHANGED <<jobError, exc, waited, crawlVars, apiVars>>

\* delete_project, before the job is dispatched.
delete_project ==
    /\ recovered
    /\ projectExists
    /\ jobStatus[TheJob] \in {"pending", "in_progress"}
    /\ hpc \in {"idle", "start"}
    /\ projectExists' = FALSE
    /\ UNCHANGED <<jobStatus, jobPayload, jobProcessed, jobResult, projectStatus,
                   linkStatus, linkEntry, entryCount, recovered, crashes, holding,
                   handlerVars, cancelReq, handed>>
    /\ UNCHANGED extVars

CancelRequest ==
    /\ cancel_job(TheJob)
    /\ UNCHANGED <<jobPayload, jobProcessed, jobResult, projectExists, projectStatus,
                   linkStatus, linkEntry, entryCount, recovered, crashes, holding,
                   handlerVars, handed>>
    /\ UNCHANGED extVars

Recover ==
    /\ recover_stale_datas
    /\ UNCHANGED <<jobPayload, jobProcessed, jobResult, projectExists, projectStatus,
                   linkEntry, entryCount, crashes, holding, handlerVars, cancelReq>>
    /\ UNCHANGED extVars

\* The process dies (every coroutine and open transaction with it) and main()
\* runs again: the worker thread is started, then the server runs on_startup.
CrashRestart ==
    /\ crashes < MaxCrashes
    /\ jobStatus[TheJob] # "none"
    /\ crashes' = crashes + 1
    /\ recovered' = FALSE
    /\ holding' = [c \in Callers |-> NoJob]
    /\ HandlerReset
    /\ dispatch' = IF hpc = "batch" THEN "crashed_in_batch" ELSE "idle"
    /\ cancelReq' = FALSE
    /\ CrawlReset
    /\ exc' = NoException
    /\ waited' = FALSE
    /\ UNCHANGED <<dbVars, handed>>
    /\ UNCHANGED <<jobKind, jobError, crawlDb, crawlHist, apiVars>>

(* ---------------------------- worker loop ------------------------------ *)
\* run_worker: poll the claim; on a job, await process_background_job(job.id).
run_worker ==
    /\ hpc = "idle"
    /\ get_and_lock_pending_background_job(Worker)
    /\ hpc' = "start"
    /\ dispatch' = "running"
    /\ UNCHANGED <<jobPayload, jobProcessed, jobResult, projectExists, projectStatus,
                   linkStatus, linkEntry, entryCount, recovered, crashes, selected,
                   event, poller, sem, task, taskResult, doneQ, batch_results,
                   total_processed, counts, writes, cancelReq>>
    /\ UNCHANGED extVars

\* process_background_job returns to the worker loop.
DispatchEnds(how) ==
    /\ hpc' = "idle"
    /\ dispatch' = how
    /\ holding' = [holding EXCEPT ![Worker] = NoJob]

\* The handler's frame is gone: its loop variables are dropped (the history
\* of the run, selected / event / taskResult / writes, is kept).
LocalsDropped ==
    /\ sem' = 0
    /\ task' = [l \in Links |-> "none"]
    /\ doneQ' = <<>>
    /\ batch_results' = <<>>
    /\ total_processed' = 0
    /\ counts' = ZeroCounts

\* JOB_HANDLERS.get(job.task_name): where the handler of a task starts.
HandlerEntry(k) ==
    IF k = "process_project_entries" THEN "select"
    ELSE IF k \in {"discover_and_crawl_sources", "rescan_links"} THEN "c_init"
    ELSE "g_run"

\* process_background_job up to the handler call: load the job and its
\* project; without a project it logs and returns, without a handler for the
\* task it raises ValueError.
process_background_job ==
    /\ hpc = "start"
    /\ IF projectExists
         THEN /\ IF jobKind[holding[Worker]] \in DOMAIN JOB_HANDLERS
                   THEN /\ hpc' = HandlerEntry(jobKind[holding[Worker]])
                        /\ UNCHANGED exc
                   ELSE /\ hpc' = "except"
                        /\ exc' = "No handler for task"
              /\ UNCHANGED <<dispatch, holding>>
         ELSE /\ DispatchEnds("no_project")
              /\ UNCHANGED exc
    /\ UNCHANGED <<dbVars, recovered, crashes, selected, event, poller, sem, task,
                   taskResult, doneQ, batch_results, total_processed, counts,
                   writes, cancelReq, handed>>
    /\ UNCHANGED <<jobKind, jobError, waited, crawlVars, apiVars>>

(* ------------------------ process_project_entries ---------------------- *)
\* get_links_by_ids / get_processable_links_for_project
links_to_process ==
    IF jobPayload = {}
      THEN {l \in Links : linkStatus[l] \in {"pending", "failed"}}
      ELSE jobPayload

\* No links: project and job are completed in one transaction.
\* Otherwise the links are kept for the initial transaction.
SelectLinks ==
    /\ hpc = "select"
    /\ IF links_to_process = {}
         THEN /\ projectStatus' = "completed"
              /\ jobStatus' = update_background_job(jobStatus, TheJob, "completed")
              /\ jobResult' = ZeroCounts
              /\ DispatchEnds("handler_returned")
              /\ UNCHANGED selected
         ELSE /\ selected' = links_to_process
              /\ hpc' = "mark"
              /\ UNCHANGED <<projectStatus, jobStatus, jobResult, dispatch, holding>>
    /\ UNCHANGED <<jobPayload, jobProcessed, projectExists, linkStatus, linkEntry,
                   entryCount, recovered, crashes, event, poller, sem, task,
                   taskResult, doneQ, batch_results, total_processed, counts,
                   writes, cancelReq, handed>>
    /\ UNCHANGED extVars

\* Initial transaction (project processing, progress 0, links processing),
\* then the poller and one task per link are created.
MarkProcessing ==
    /\ hpc = "mark"
    /\ projectStatus' = "processing"
    /\ jobProcessed' = 0
    /\ linkStatus' = [l \in Links |-> IF l \in selected THEN "processing" ELSE linkStatus[l]]
    /\ event' = FALSE
    /\ sem' = CONCURRENT_REQUESTS
    /\ poller' = TRUE
    /\ task' = [l \in Links |-> IF l \in selected THEN "created" ELSE "none"]
    /\ taskResult' = [l \in Links |-> "unset"]
    /\ doneQ' = <<>>
    /\ batch_results' = <<>>
    /\ total_processed' = 0
    /\ counts' = ZeroCounts
    /\ writes' = [l \in Links |-> 0]
    /\ hpc' = "loop"
    /\ UNCHANGED <<jobStatus, jobPayload, jobResult, projectExists, linkEntry,
                   entryCount, recovered, crashes, holding, dispatch, selected,
                   cancelReq, handed>>
    /\ UNCHANGED extVars

\* The handler's coroutine is suspended at an await of the loop: tasks and
\* the poller run.
HandlerAwaiting ==
    hpc \in {"loop", "batch", "progress", "c_loop", "c_fetch", "c_call", "c_page"}

\* poll_for_cancellation: read the job; on cancelling set the event and stop,
\* else sleep and poll again.
poll_for_cancellation ==
    /\ poller
    /\ ~event
    /\ HandlerAwaiting
    /\ jobStatus[TheJob] = "cancelling"
    /\ event' = TRUE
    /\ poller' = FALSE
    /\ UNCHANGED <<dbVars, recovered, crashes, holding, hpc, dispatch, selected, sem,
                   task, taskResult, doneQ, batch_results, total_processed,
                   counts, writes, cancelReq, handed>>
    /\ UNCHANGED extVars

taskFrame == <<dbVars, recovered, crashes, holding, hpc, dispatch, selected, event,
               poller, batch_results, total_processed, counts, writes, cancelReq,
               handed>>

\* A task returns r: as_completed yields it after the earlier finishers.
TaskReturns(l, r) ==
    /\ task' = [task EXCEPT ![l] = "done"]
    /\ taskResult' = [taskResult EXCEPT ![l] = r]
    /\ doneQ' = Append(doneQ, l)

\* async with semaphore: a permit must be free.
SemaphoreIgnored(s) == TRUE
SemaphoreFree(s) == s > 0

\* process_with_limiter, entry: return None when cancelled, else acquire.
TaskStart(l) ==
    /\ HandlerAwaiting
    /\ task[l] = "created"
    /\ \A k \in selected : k < l => task[k] # "created"   \* tasks run in creation order
    /\ IF event
         THEN /\ TaskReturns(l, "none")
              /\ UNCHANGED sem
         ELSE /\ SemaphoreFree(sem)
              /\ sem' = sem - 1
              /\ task' = [task EXCEPT ![l] = "limited"]
              /\ UNCHANGED <<taskResult, doneQ>>
    /\ UNCHANGED taskFrame
    /\ UNCHANGED extVars

\* process_with_limiter after wait_for_rate_limit: return None (releasing the
\* permit) when cancelled, else start _process_single_link_io.
TaskRateLimited(l) ==
    /\ HandlerAwaiting
    /\ task[l] = "limited"
    /\ IF event
         THEN /\ TaskReturns(l, "none")
              /\ sem' = sem + 1
         ELSE /\ task' = [task EXCEPT ![l] = "io"]
              /\ UNCHANGED <<sem, taskResult, doneQ>>
    /\ UNCHANGED taskFrame
    /\ UNCHANGED extVars

\* _process_single_link_io ends with one of the three outcomes (every
\* exception is caught and becomes Failed); the permit is released.
process_single_link_io(l) ==
    /\ HandlerAwaiting
    /\ task[l] = "io"
    /\ \E o \in Outcomes : TaskReturns(l, o)
    /\ sem' = sem + 1
    /\ UNCHANGED taskFrame
    /\ UNCHANGED extVars


(* ------------------------------ Phase 2 -------------------------------- *)
\* Tasks of the run that as_completed has not yielded yet, once the head of
\* doneQ is taken.
Remaining(q) == Cardinality({l \in selected : task[l] # "done"}) + Len(q)

\* "Process a batch when it's full or when all tasks are done"
FlushOnlyWhenFull(nb, tp, total) == nb >= DB_WRITE_BATCH_SIZE
ShouldFlush(nb, tp, total) == nb >= DB_WRITE_BATCH_SIZE \/ tp + nb = total

\* One iteration of `for future in asyncio.as_completed(tasks)` up to the
\* batch write (hpc = "batch": the batch transaction is open); leaving the
\* loop cancels the poller.
LoopNext ==
    /\ hpc = "loop"
    /\ doneQ # <<>>
    /\ LET l == Head(doneQ)
           r == taskResult[l]
           nb == IF r = "none" THEN batch_results
                 ELSE Append(batch_results, [link |-> l, outcome |-> r])
       IN /\ batch_results' = nb
          /\ doneQ' = Tail(doneQ)
          /\ IF ShouldFlush(Len(nb), total_processed, Cardinality(selected)) /\ nb # <<>>
               THEN /\ hpc' = "batch"
                    /\ UNCHANGED poller
               ELSE IF Remaining(Tail(doneQ)) = 0
                 THEN /\ hpc' = "finalize"
                      /\ poller' = FALSE
                 ELSE /\ hpc' = "loop"
                      /\ UNCHANGED poller
    /\ UNCHANGED <<dbVars, recovered, crashes, holding, dispatch, selected, event, sem,
                   task, taskResult, total_processed, counts, writes, cancelReq, handed>>
    /\ UNCHANGED extVars

\* _process_db_batch, one result inside the transaction.
ApplyResultNoRef(db, r) ==
    IF r.outcome = "success"
      THEN [db EXCEPT !.n[r.link] = @ + 1, !.status[r.link] = "completed"]
      ELSE [db EXCEPT !.status[r.link] = r.outcome]
ApplyResult(db, r) ==
    IF r.outcome = "success"
      THEN [db EXCEPT !.n[r.link] = @ + 1,
                      !.status[r.link] = "completed",
                      !.entry[r.link] = db.n[r.link] + 1]
      ELSE [db EXCEPT !.status[r.link] = r.outcome]

RECURSIVE ApplyBatch(_, _)
ApplyBatch(db, rs) ==
    IF rs = <<>> THEN db ELSE ApplyBatch(ApplyResult(db, Head(rs)), Tail(rs))

CountOf(rs, o) == Cardinality({i \in 1..Len(rs) : rs[i].outcome = o})

\* counts returned by _process_db_batch
BatchCounts(rs) ==
    [created |-> CountOf(rs, "success"),
     skipped |-> CountOf(rs, "skipped"),
     failed |-> CountOf(rs, "failed")]

\* `async with (await get_db_connection()).transaction() as tx`: an exception
\* inside the block rolls back every write made through tx.
TxAbortedKeepsWrites(before, inside) == inside
TxAborted(before, inside) == before

batchFrame == <<jobStatus, jobPayload, jobProcessed, jobResult, projectExists,
                projectStatus, recovered, crashes, holding, dispatch, selected, event,
                poller, sem, task, taskResult, doneQ, cancelReq, handed>>

\* A database call of the batch raises after some of its results were applied
\* (create_lorebook_entry: "Failed to create lorebook entry"): the
\* transaction rolls back and the exception leaves the handler.
BatchRaise ==
    /\ hpc = "batch"
    /\ hpc' = "except"
    /\ exc' = "Failed to create lorebook entry"
    /\ \E n \in 0..(Len(batch_results) - 1) :
          LET db == [status |-> linkStatus, entry |-> linkEntry, n |-> entryCount]
              after == TxAborted(db, ApplyBatch(db, SubSeq(batch_results, 1, n)))
          IN /\ linkStatus' = after.status
             /\ linkEntry' = after.entry
             /\ entryCount' = after.n
    /\ UNCHANGED <<batchFrame, batch_results, total_processed, counts, writes>>
    /\ UNCHANGED <<jobKind, jobError, waited, crawlVars, apiVars>>

\* total_processed += len(batch_results)
ProcessedAfterFull(tp, rs) == tp + DB_WRITE_BATCH_SIZE
ProcessedAfter(tp, rs) == tp + Len(rs)

\* batch_results.clear()
KeepBatch(rs) == rs
ClearBatch(rs) == <<>>

\* The transaction commits; the loop adds the counts and clears the batch.
BatchCommit ==
    /\ hpc = "batch"
    /\ LET db == ApplyBatch([status |-> linkStatus, entry |-> linkEntry, n |-> entryCount],
                            batch_results)
           c == BatchCounts(batch_results)
       IN /\ linkStatus' = db.status
          /\ linkEntry' = db.entry
          /\ entryCount' = db.n
          /\ counts' = [created |-> counts.created + c.created,
                        skipped |-> counts.skipped + c.skipped,
                        failed |-> counts.failed + c.failed]
          /\ writes' = [l \in Links |->
                          writes[l] + Cardinality({i \in 1..Len(batch_results) :
                                                      batch_results[i].link = l})]
    /\ total_processed' = ProcessedAfter(total_processed, batch_results)
    /\ batch_results' = ClearBatch(batch_results)
    /\ hpc' = "progress"
    /\ UNCHANGED batchFrame
    /\ UNCHANGED extVars

\* Progress update after the batch; then the next iteration or the end of
\* the loop (polling_task.cancel()).
UpdateProgress ==
    /\ hpc = "progress"
    /\ jobProcessed' = total_processed
    /\ IF Remaining(doneQ) = 0
         THEN /\ hpc' = "finalize"
              /\ poller' = FALSE
         ELSE /\ hpc' = "loop"
              /\ UNCHANGED poller
    /\ UNCHANGED <<jobStatus, jobPayload, jobResult, projectExists, projectStatus,
                   linkStatus, linkEntry, entryCount, recovered, crashes, holding,
                   dispatch, selected, event, sem, task, taskResult, doneQ,
                   batch_results, total_processed, counts, writes, cancelReq,
                   handed>>
    /\ UNCHANGED extVars

\* ProjectStatus.completed if total_failed == 0 else ProjectStatus.failed
final_project_status_completed(total_failed) == "completed"
final_project_status(total_failed) == IF total_failed = 0 THEN "completed" ELSE "failed"

\* Finalization transaction.
Finalize ==
    /\ hpc = "finalize"
    /\ IF event
         THEN /\ jobStatus' = update_background_job(jobStatus, TheJob, "canceled")
              /\ linkStatus' = reset_processing_links_to_pending(linkStatus)
              /\ UNCHANGED <<projectStatus, jobResult>>
         ELSE /\ projectStatus' = final_project_status(counts.failed)
              /\ jobStatus' = update_background_job(jobStatus, TheJob, "completed")
              /\ jobResult' = counts
              /\ UNCHANGED linkStatus
    /\ DispatchEnds("handler_returned")
    /\ LocalsDropped
    /\ UNCHANGED <<jobPayload, jobProcessed, projectExists, linkEntry, entryCount,
                   recovered, crashes, selected, event, poller, taskResult, writes,
                   cancelReq, handed>>
    /\ UNCHANGED extVars

\* UpdateBackgroundJob(status=JobStatus.failed, error_message=str(e))
FailedUpdateNoMessage(e) == [status |-> "failed", error_message |-> NoError]
FailedUpdate(e) == [status |-> "failed", error_message |-> e]

\* process_background_job, except Exception: the job is marked failed with
\* the exception's message.
ExceptHandler ==
    /\ hpc = "except"
    /\ LET j == holding[Worker]
           u == FailedUpdate(exc)
       IN /\ jobStatus' = update_background_job(jobStatus, j, u.status)
          /\ jobError' = [jobError EXCEPT ![j] = u.error_message]
    /\ DispatchEnds("handler_raised")
    /\ LocalsDropped
    /\ CrawlReset
    /\ waited' = FALSE
    /\ UNCHANGED <<jobPayload, jobProcessed, jobResult, projectExists, projectStatus,
                   linkStatus, linkEntry, entryCount, recovered, crashes, selected,
                   event, poller, taskResult, writes, cancelReq, handed>>
    /\ UNCHANGED <<jobKind, exc, crawlDb, crawlHist, apiVars>>

(* ------------------------- the simple handlers ------------------------- *)
\* confirm_links, generate_search_params, fetch_source_content,
\* generate_character_card, regenerate_character_field: checks and reads, for
\* three of them one provider.generate call, then the final transaction.

\* The handlers that call provider.generate
CallsModel(k) ==
    k \in {"generate_search_params", "generate_character_card",
           "regenerate_character_field"}

simpleFrame == <<dbVars, recovered, crashes, selected, event, poller, sem, task,
                 taskResult, doneQ, batch_results, total_processed, counts, writes,
                 cancelReq, handed, jobKind, crawlVars, apiVars>>

\* provider.generate(...) is awaited
ModelCall ==
    /\ hpc = "g_run"
    /\ CallsModel(jobKind[holding[Worker]])
    /\ hpc' = "g_called"
    /\ UNCHANGED <<simpleFrame, holding, dispatch, jobError, exc, waited>>

\* A check, a read or the response raises: the exception leaves the handler
\* (a transaction that is open rolls back).
SimpleRaise ==
    /\ hpc \in {"g_run", "g_called"}
    /\ \E m \in Messages : exc' = m
    /\ hpc' = "except"
    /\ UNCHANGED <<simpleFrame, holding, dispatch, jobError, waited>>

\* The final transaction writes completed and the handler returns.
SimpleReturns ==
    /\ \/ hpc = "g_run" /\ ~CallsModel(jobKind[holding[Worker]])
       \/ hpc = "g_called"
    /\ jobStatus' = update_background_job(jobStatus, holding[Worker], "completed")
    /\ DispatchEnds("handler_returned")
    /\ waited' = FALSE
    /\ UNCHANGED <<jobPayload, jobProcessed, jobResult, projectExists, projectStatus,
                   linkStatus, linkEntry, entryCount, recovered, crashes, selected,
                   event, poller, sem, task, taskResult, doneQ, batch_results,
                   total_processed, counts, writes, cancelReq, handed>>
    /\ UNCHANGED <<jobKind, jobError, exc, crawlVars, apiVars>>

Next ==
    \/ create_process_project_entries_job
    \/ delete_project
    \/ CancelRequest
    \/ Recover
    \/ CrashRestart
    \/ run_worker
    \/ process_background_job
    \/ SelectLinks
    \/ MarkProcessing
    \/ poll_for_cancellation
    \/ \E l \in Links : TaskStart(l)
    \/ \E l \in Links : TaskRateLimited(l)
    \/ \E l \in Links : process_single_link_io(l)
    \/ LoopNext
    \/ BatchRaise
    \/ BatchCommit
    \/ UpdateProgress
    \/ Finalize
    \/ ExceptHandler

Spec == Init /\ [][Next]_vars


(* ============================ crawl engine ============================= *)
\* discover_and_crawl_sources and rescan_links over _crawl_and_discover. A
\* source is named by its url; a page is named by its url.

\* The end-to-end scenario's web: one source (url 1) of three pages 1 -> 2 ->
\* 3, two category links on page 1, five content links of which 6 and 7 are
\* links already.
ScenarioLimits == [pages |-> 3, depth |-> 1, exclusions |-> {}]
ScenarioLinks == {6, 7}
ScenarioContent(p) ==
    IF p = 1 THEN {6, 8} ELSE IF p = 2 THEN {7, 9} ELSE IF p = 3 THEN {10} ELSE {}
ScenarioCategory(p) == IF p = 1 THEN {4, 5} ELSE {}
ScenarioNext(p) == IF p = 1 THEN 2 ELSE IF p = 2 THEN 3 ELSE NoUrl

Matches == {m \in SUBSET Urls : Cardinality(m) <= MaxMatches}

\* What the selectors match on the fetched page (after the exclusion
\* patterns): content urls, category urls, the next-page url.
PageInputs(k, p) ==
    IF scenario
      THEN {[content |-> ScenarioContent(p), category |-> ScenarioCategory(p),
             next |-> ScenarioNext(p)]}
      ELSE [content : Matches,
            category : IF k = "rescan_links" THEN {{}} ELSE Matches,
            next : Urls \cup {NoUrl}]

\* The orders in which a set may be iterated.
Orderings(S) ==
    {q \in [1..Cardinality(S) -> S] : \A i, j \in 1..Cardinality(S) : i # j => q[i] # q[j]}

\* payload.source_ids of a crawl job: a list of distinct sources, and the
\* lists that name a source twice (the request does not refuse them).
CrawlPayloads == {[i \in 1..n |-> i] : n \in 1..2}
RepeatingPayloads == {<<1, 1>>}

\* The crawl settings a source row may hold.
SourceSettings ==
    {[pages |-> MaxPages, depth |-> 1, exclusions |-> {}],
     [pages |-> MaxPages, depth |-> MaxCrawlDepth, exclusions |-> {"/x/"}]}

\* create_discover_and_crawl_job / create_rescan_links_job for a payload of
\* `payloads`, with the state of the project the job finds: its sources,
\* their limits, its links.
CrawlJobCreated(k, payloads) ==
    /\ recovered
    /\ create_background_job(TheJob)
    /\ jobKind' = [jobKind EXCEPT ![TheJob] = k]
    /\ \E sc \in (IF k = "discover_and_crawl_sources" THEN BOOLEAN ELSE {FALSE}) :
        /\ scenario' = sc
        /\ IF sc
             THEN /\ jobPayload' = <<1>>
                  /\ sources' = {1}
                  /\ withSelectors' = {}
                  /\ linkUrls' = ScenarioLinks
                  /\ limits' = [u \in {1} |-> ScenarioLimits]
             ELSE /\ \E ids \in payloads :
                        /\ jobPayload' = ids
                        /\ \E others \in {{}, {2}} :
                              sources' = {ids[i] : i \in 1..Len(ids)} \cup others
                  /\ \E w \in (IF k = "rescan_links" THEN {{}, {1}, {1, 2}} ELSE {{}}) :
                        withSelectors' = w \cap sources'
                  /\ \E u \in {{}, {MaxUrls}, Urls} : linkUrls' = u
                  /\ \E l \in [sources' -> SourceSettings] : limits' = l
    /\ UNCHANGED <<jobProcessed, jobResult, projectExists, projectStatus, linkStatus,
                   linkEntry, entryCount, recovered, crashes, holding, handlerVars,
                   cancelReq, handed>>
    /\ UNCHANGED <<jobError, exc, waited, edges, crawlResult, crawlProgress,
                   crawlLocals, apiVars>>

create_crawl_job(k) == CrawlJobCreated(k, CrawlPayloads)

crawlFrame == <<jobPayload, jobProcessed, jobResult, projectExists, linkStatus,
                linkEntry, entryCount, recovered, crashes, selected, sem, task,
                taskResult, doneQ, batch_results, total_processed, counts, writes,
                cancelReq, handed, jobKind, jobError, linkUrls, scenario,
                apiVars>>

\* SelectorResponse.pagination_selector as soupsieve takes it: a selector it
\* compiles (or none at all), or one that raises SelectorSyntaxError.
PaginationSelectors == {"valid", "invalid"}

NewCur(s, d) ==
    [src |-> s, depth |-> d, url |-> s, pages |-> 0, new |-> {}, existing |-> {},
     created |-> {}, edges |-> {}, both |-> {}, content |-> {},
     category |-> {}, pagination |-> "valid"]

\* A check or a database call outside the per-source try block raises
\* (search params missing, no credential, the progress update).
CrawlRaise ==
    /\ hpc \in {"c_init", "c_loop"}
    /\ ~scenario
    /\ exc' = "Project must have search params to discover sources."
    /\ hpc' = "except"
    /\ UNCHANGED <<crawlFrame, limits, crawlProgress, jobStatus, projectStatus,
                   holding, dispatch, event,
                   poller, waited, sources, withSelectors, edges, crawlResult,
                   crawlLocals>>

\* Setup: the poller starts, the payload's existing sources are queued at
\* depth 1 and their urls are visited.
CrawlInit ==
    /\ hpc = "c_init"
    /\ event' = FALSE
    /\ poller' = TRUE
    /\ LET found == SelectSeq(jobPayload, LAMBDA s : s \in sources)
       IN /\ queue' = [i \in 1..Len(found) |-> <<found[i], 1>>]
          /\ visited_source_urls' = {found[i] : i \in 1..Len(found)}
    /\ crawlProgress' = [processed_items |-> 0, total_items |-> Len(queue')]
    /\ all_new_links_this_job' = {}
    /\ all_existing_links_found_again' = {}
    /\ total_new_sources' = 0
    /\ total_selectors_generated' = 0
    /\ failed_source_ids' = {}
    /\ cur' = NoCur
    /\ hpc' = "c_loop"
    /\ UNCHANGED <<crawlFrame, limits, jobStatus, projectStatus, holding, dispatch,
                   exc,
                   waited, sources, withSelectors, edges, crawlResult>>

\* `while queue:` with `if cancellation_event.is_set(): break` at the top of
\* the body.
LoopEndsWhenEmpty(q, e) == q = <<>>
LoopEnds(q, e) == q = <<>> \/ e


\* The `finally` of the loop body: processed_count += 1, then
\* processed_items = processed_count and total_items = len(visited_source_urls).
ProgressUpdate(visited) ==
    crawlProgress' = [processed_items |-> crawlProgress.processed_items + 1,
                      total_items |-> Cardinality(visited)]

\* What the loop body does with a source it found: rescan_links opens the
\* transaction and crawls with the stored selectors, discover_and_crawl_sources
\* first fetches the page and asks the model for selectors.
AfterDequeueGenerates(k) == "c_fetch"
AfterDequeue(k) == IF k = "rescan_links" THEN "c_page" ELSE "c_fetch"

\* `while queue:` with the cancellation check; popleft; a missing source (or,
\* rescanning, one without selectors) is skipped.
CrawlLoop ==
    /\ hpc = "c_loop"
    /\ IF LoopEnds(queue, event)
         THEN /\ hpc' = "c_final"
              /\ poller' = FALSE
              /\ UNCHANGED <<queue, cur, crawlProgress>>
         ELSE LET s == Head(queue)[1]
                  d == Head(queue)[2]
                  k == jobKind[holding[Worker]]
              IN /\ queue' = Tail(queue)
                 /\ UNCHANGED poller
                 /\ IF s \notin sources \/ (k = "rescan_links" /\ s \notin withSelectors)
                      THEN /\ hpc' = "c_loop"
                           /\ ProgressUpdate(visited_source_urls)
                           /\ UNCHANGED cur
                      ELSE /\ hpc' = AfterDequeue(k)
                           /\ UNCHANGED crawlProgress
                           /\ \E pg \in (IF k = "rescan_links" THEN PaginationSelectors
                                         ELSE {"valid"}) :
                                 cur' = [NewCur(s, d) EXCEPT !.pagination = pg]
    /\ UNCHANGED <<crawlFrame, limits, jobStatus, projectStatus, holding, dispatch,
                   event, exc,
                   waited, sources, withSelectors, edges, crawlResult,
                   visited_source_urls, all_new_links_this_job,
                   all_existing_links_found_again, total_new_sources,
                   total_selectors_generated, failed_source_ids>>

SourceFailedUnrecorded ==
    /\ failed_source_ids' = failed_source_ids
    /\ cur' = NoCur
    /\ hpc' = "c_loop"

\* The source failed: `except Exception` of the loop body, then `finally`.
SourceFailed ==
    /\ failed_source_ids' = failed_source_ids \cup {cur.src}
    /\ cur' = NoCur
    /\ hpc' = "c_loop"

\* scraper.get_content(source.url), then wait_for_rate_limit.
CrawlFetch ==
    /\ hpc = "c_fetch"
    /\ \/ /\ waited' = TRUE
          /\ hpc' = "c_call"
          /\ UNCHANGED <<failed_source_ids, cur, crawlProgress>>
       \/ /\ ~scenario
          /\ SourceFailed
          /\ ProgressUpdate(visited_source_urls)
          /\ UNCHANGED waited
    /\ UNCHANGED <<crawlFrame, limits, jobStatus, projectStatus, holding, dispatch,
                   event,
                   poller, exc, sources, withSelectors, edges, crawlResult, queue,
                   visited_source_urls, all_new_links_this_job,
                   all_existing_links_found_again, total_new_sources,
                   total_selectors_generated>>

\* provider.generate for the selectors: an error response fails the source; a
\* response is counted, then validated; the source's transaction is open.
GenerateSelectors ==
    /\ hpc = "c_call"
    /\ waited' = FALSE
    /\ \E r \in (IF scenario THEN {"ok"} ELSE {"ok", "error", "invalid"}) :
        /\ total_selectors_generated' =
              IF r = "error" THEN total_selectors_generated
              ELSE total_selectors_generated + 1
        /\ IF r = "ok"
             THEN /\ hpc' = "c_page"
                  /\ \E pg \in (IF scenario THEN {"valid"} ELSE PaginationSelectors) :
                        cur' = [cur EXCEPT !.pagination = pg]
                  /\ UNCHANGED <<failed_source_ids, crawlProgress>>
             ELSE SourceFailed /\ ProgressUpdate(visited_source_urls)
    /\ UNCHANGED <<crawlFrame, limits, jobStatus, projectStatus, holding, dispatch,
                   event,
                   poller, exc, sources, withSelectors, edges, crawlResult, queue,
                   visited_source_urls, all_new_links_this_job,
                   all_existing_links_found_again, total_new_sources>>

\* `while current_url and pages_crawled < source.max_pages_to_crawl`
PageLoopNoLimit(c) == c.url # NoUrl
PageLoop(c) == c.url # NoUrl /\ c.pages < limits[c.src].pages

\* `content_urls -= category_urls`
ContentUrls(content, category) == content \ category

\* The urls of a page reported as existing / as new.
ExistingLinks(content) == {u \in content : u \in linkUrls}
NewLinksUnchecked(content) == {u \in content : u \notin all_new_links_this_job}
NewLinks(content) ==
    {u \in content : u \notin linkUrls /\ u \notin all_new_links_this_job}

\* The next value of current_url
NextUrl(url, next) == IF next = NoUrl \/ next = url THEN NoUrl ELSE next

\* `soup.select_one(selectors.pagination_selector)`, outside any try block.
select_one_raises(pg) == pg = "invalid"

\* One iteration of the page loop of _crawl_and_discover; a selector that
\* select_one refuses raises out of the crawl after the page's links and
\* children were taken: the source's transaction rolls back and the source
\* has failed.
CrawlPage ==
    /\ hpc = "c_page"
    /\ PageLoop(cur)
    /\ \/ /\ ~scenario              \* the fetch fails: break
          /\ cur' = [cur EXCEPT !.url = NoUrl]
          /\ hpc' = "c_page"
          /\ UNCHANGED <<queue, visited_source_urls, failed_source_ids,
                         crawlProgress>>
       \/ \E in \in PageInputs(jobKind[holding[Worker]], cur.url) :
          LET pages == cur.pages + 1
              descend == cur.depth < limits[cur.src].depth
              category_urls == IF descend THEN in.category ELSE {}
              content_urls == ContentUrls(in.content, category_urls)
              children == IF pages = 1 /\ descend
                            THEN category_urls \ visited_source_urls ELSE {}
          IN \E order \in Orderings(children) :
              /\ visited_source_urls' = visited_source_urls \cup children
              /\ queue' = queue \o [i \in 1..Cardinality(children) |->
                                       <<order[i], cur.depth + 1>>]
              /\ IF select_one_raises(cur.pagination)
                   THEN /\ SourceFailed
                        /\ ProgressUpdate(visited_source_urls \cup children)
                   ELSE /\ cur' = [cur EXCEPT
                              !.pages = pages,
                              !.existing = @ \cup ExistingLinks(content_urls),
                              !.new = @ \cup NewLinks(content_urls),
                              !.created = @ \cup (children \ (sources \cup cur.created)),
                              !.edges = @ \cup {<<cur.src, c>> : c \in children},
                              !.both = @ \cup (in.content \cap in.category),
                              !.content = @ \cup content_urls,
                              !.category = category_urls,
                              !.url = NextUrl(cur.url, in.next)]
                        /\ hpc' = "c_page"
                        /\ UNCHANGED <<failed_source_ids, crawlProgress>>
    /\ UNCHANGED <<crawlFrame, limits, jobStatus, projectStatus, holding, dispatch,
                   event,
                   poller, exc, waited, sources, withSelectors, edges, crawlResult,
                   all_new_links_this_job, all_existing_links_found_again,
                   total_new_sources, total_selectors_generated>>

\* CreateProjectSource for a child: the parent's max_crawl_depth,
\* max_pages_to_crawl and url_exclusion_patterns.
create_project_source_defaults(parent) == DefaultLimits
create_project_source(parent) == parent

\* The page loop has ended: the crawl returns, its transaction commits (the
\* selectors, the new sources, the hierarchy edges) and the run's sets grow.
CrawlSourceDone ==
    /\ hpc = "c_page"
    /\ ~PageLoop(cur)
    /\ sources' = sources \cup cur.created
    /\ limits' = [u \in sources' |->
                     IF u \in sources THEN limits[u] ELSE create_project_source(limits[cur.src])]
    /\ edges' = edges \cup cur.edges
    /\ withSelectors' = IF jobKind[holding[Worker]] = "discover_and_crawl_sources"
                          THEN withSelectors \cup {cur.src} ELSE withSelectors
    /\ all_new_links_this_job' = all_new_links_this_job \cup cur.new
    /\ all_existing_links_found_again' = all_existing_links_found_again \cup cur.existing
    /\ total_new_sources' = total_new_sources + Cardinality(cur.created)
    /\ cur' = NoCur
    /\ hpc' = "c_loop"
    /\ ProgressUpdate(visited_source_urls)
    /\ UNCHANGED <<crawlFrame, jobStatus, projectStatus, holding, dispatch, event,
                   poller, exc, waited, crawlResult, queue, visited_source_urls,
                   total_selectors_generated, failed_source_ids>>

\* A database call of the crawl raises: the source's transaction rolls back
\* (the queue and the visited urls keep what the crawl added) and the source
\* has failed.
CrawlSourceRaise ==
    /\ hpc = "c_page"
    /\ ~scenario
    /\ SourceFailed
    /\ ProgressUpdate(visited_source_urls)
    /\ UNCHANGED <<crawlFrame, limits, jobStatus, projectStatus, holding, dispatch,
                   event,
                   poller, exc, waited, sources, withSelectors, edges, crawlResult,
                   queue, visited_source_urls, all_new_links_this_job,
                   all_existing_links_found_again, total_new_sources,
                   total_selectors_generated>>

\* Finalization: canceled, or completed with the result.
CrawlFinalize ==
    /\ hpc = "c_final"
    /\ IF event
         THEN /\ jobStatus' = update_background_job(jobStatus, holding[Worker], "canceled")
              /\ UNCHANGED <<projectStatus, crawlResult>>
         ELSE /\ projectStatus' =
                    IF /\ jobKind[holding[Worker]] = "discover_and_crawl_sources"
                       /\ projectStatus = "search_params_generated"
                      THEN "selector_generated" ELSE projectStatus
              /\ jobStatus' = update_background_job(jobStatus, holding[Worker], "completed")
              /\ crawlResult' =
                    [status |-> "completed",
                     new_links |-> all_new_links_this_job,
                     existing_links |-> all_existing_links_found_again,
                     new_sources_created |-> total_new_sources,
                     selectors_generated |->
                        IF jobKind[holding[Worker]] = "rescan_links" THEN 0
                        ELSE total_selectors_generated,
                     sources_failed |-> failed_source_ids]
    /\ DispatchEnds("handler_returned")
    /\ CrawlReset
    /\ UNCHANGED <<crawlFrame, limits, crawlProgress, event, poller, exc, waited,
                   sources, withSelectors,
                   edges>>

CrawlTasks == {"discover_and_crawl_sources", "rescan_links"}

NextCrawl ==
    \/ \E k \in CrawlTasks : create_crawl_job(k)
    \/ CancelRequest
    \/ Recover
    \/ run_worker
    \/ process_background_job
    \/ poll_for_cancellation
    \/ CrawlRaise
    \/ CrawlInit
    \/ CrawlLoop
    \/ CrawlFetch
    \/ GenerateSelectors
    \/ CrawlPage
    \/ CrawlSourceDone
    \/ CrawlSourceRaise
    \/ CrawlFinalize
    \/ ExceptHandler

SpecCrawl == Init /\ [][NextCrawl]_vars

(* ======================= worker specification ========================== *)
\* One worker and several jobs of the simple handlers.

\* The controllers' create_*_job for the simple handlers.
create_simple_job(j, k) ==
    /\ projectExists
    /\ create_background_job(j)
    /\ jobKind' = [jobKind EXCEPT ![j] = k]

WorkerCreate ==
    /\ \E j \in Jobs, k \in SimpleTasks : create_simple_job(j, k)
    /\ UNCHANGED <<storeFrame, linkStatus, recovered, crashes, holding, cancelReq, handed>>
    /\ UNCHANGED <<jobError, exc, waited, crawlVars, apiVars>>

NextWorker ==
    \/ WorkerCreate
    \/ delete_project
    \/ StoreCancel
    \/ Recover
    \/ CrashRestart
    \/ run_worker
    \/ process_background_job
    \/ ModelCall
    \/ SimpleRaise
    \/ SimpleReturns
    \/ ExceptHandler

SpecWorker == Init /\ [][NextWorker]_vars

(* ======================= engine specification ========================== *)
\* One job of any task kind, from its creation to its end, without a crash.

\* The controllers' create_*_job for the simple handlers, for the one job.
EngineCreate ==
    /\ \E k \in SimpleTasks : create_simple_job(TheJob, k)
    /\ UNCHANGED <<storeFrame, linkStatus, recovered, crashes, holding, cancelReq, handed>>
    /\ UNCHANGED <<jobError, exc, waited, crawlVars, apiVars>>

NextEngine ==
    \/ create_process_project_entries_job
    \/ \E k \in CrawlTasks : create_crawl_job(k)
    \/ EngineCreate
    \/ CancelRequest
    \/ Recover
    \/ run_worker
    \/ process_background_job
    \/ SelectLinks
    \/ MarkProcessing
    \/ poll_for_cancellation
    \/ \E l \in Links : TaskStart(l)
    \/ \E l \in Links : TaskRateLimited(l)
    \/ \E l \in Links : process_single_link_io(l)
    \/ LoopNext
    \/ BatchRaise
    \/ BatchCommit
    \/ UpdateProgress
    \/ Finalize
    \/ CrawlRaise
    \/ CrawlInit
    \/ CrawlLoop
    \/ CrawlFetch
    \/ GenerateSelectors
    \/ CrawlPage
    \/ CrawlSourceDone
    \/ CrawlSourceRaise
    \/ CrawlFinalize
    \/ ModelCall
    \/ SimpleRaise
    \/ SimpleReturns
    \/ ExceptHandler

SpecEngine == Init /\ [][NextEngine]_vars

(* ===================== submission specification ======================== *)
\* create_discover_and_crawl_job against a project whose earlier crawls left
\* sources and hierarchy rows (a row <<p, c>> is written when the crawl of p
\* finds the url of c as a category link, whether c is new or exists).

SourceIds == 1..MaxSources
Hierarchies == SUBSET {e \in SourceIds \X SourceIds : e[1] < e[2]}
Submissions == (SUBSET SourceIds) \ {{}}        \* source_ids has min_length 1

InitSubmit ==
    /\ InitButHierarchy
    /\ sources = SourceIds
    /\ edges \in Hierarchies
    /\ db_row = NoRow

\* {rel.child_source_id: rel.parent_source_id for rel in hierarchy}: one parent
\* per child, the one of the last row of the child in the order the query
\* returns the rows.
ChildToParentMaps(h) ==
    LET children == {e[2] : e \in h}
    IN {pm \in [children -> SourceIds] : \A c \in children : <<pm[c], c>> \in h}

\* `while current_id in child_to_parent_map`: TRUE when the walk from
\* current_id meets a selected parent.
RECURSIVE WalkMeetsSelected(_, _, _)
WalkMeetsSelected(pm, selected_ids_set, current_id) ==
    IF current_id \notin DOMAIN pm THEN FALSE
    ELSE IF pm[current_id] \in selected_ids_set THEN TRUE
    ELSE WalkMeetsSelected(pm, selected_ids_set, pm[current_id])

\* The request: HTTPException 400 when a walk meets a selected parent, else
\* the job row is created.
create_discover_and_crawl_job(ids) ==
    /\ recovered
    /\ \E pm \in ChildToParentMaps(edges) :
        IF \E source_id \in ids : WalkMeetsSelected(pm, ids, source_id)
          THEN /\ submission' = [outcome |-> "rejected", ids |-> ids]
               /\ UNCHANGED <<jobStatus, jobKind, jobPayload>>
          ELSE \E j \in Jobs :
               /\ create_background_job(j)
               /\ jobKind' = [jobKind EXCEPT ![j] = "discover_and_crawl_sources"]
               /\ jobPayload' = IF j = TheJob THEN ids ELSE jobPayload
               /\ submission' = [outcome |-> "created", ids |-> ids]
    /\ UNCHANGED <<jobProcessed, jobResult, projectExists, projectStatus, linkStatus,
                   linkEntry, entryCount, recovered, crashes, holding, handlerVars,
                   cancelReq, handed>>
    /\ UNCHANGED <<jobError, exc, waited, crawlVars, db_row, readJob, fetch>>

NextSubmit ==
    \/ Recover
    \/ \E ids \in Submissions : create_discover_and_crawl_job(ids)

SpecSubmit == InitSubmit /\ [][NextSubmit]_vars

(* ======================== read specification =========================== *)
\* get_background_job over a stored row whose payload and result columns hold
\* any document the program writes for some task or a value that is no
\* object; the result may be NULL. A JSON object is modelled by the set of
\* its keys.

Null == [kind |-> "null"]
NotObject == [kind |-> "scalar"]
Object(ks) == [kind |-> "object", keys |-> ks]

\* The fields of the payload model of a task (payload_map).
PayloadFields(k) ==
    CASE k \in {"discover_and_crawl_sources", "rescan_links", "fetch_source_content"} ->
            [required |-> {"source_ids"}, optional |-> {}]
      [] k = "confirm_links" -> [required |-> {"urls"}, optional |-> {}]
      [] k = "process_project_entries" -> [required |-> {}, optional |-> {"link_ids"}]
      [] k = "generate_search_params" -> [required |-> {}, optional |-> {}]
      [] k = "generate_character_card" -> [required |-> {}, optional |-> {"source_ids"}]
      [] k = "regenerate_character_field" ->
            [required |-> {"field_to_regenerate", "context_options"},
             optional |-> {"custom_prompt"}]

\* The fields of the result model of a task (result_map).
ResultFields(k) ==
    CASE k \in {"discover_and_crawl_sources", "rescan_links"} ->
            [required |-> {"new_links", "existing_links", "new_sources_created",
                           "selectors_generated"},
             optional |-> {"sources_failed"}]
      [] k = "confirm_links" -> [required |-> {"links_saved"}, optional |-> {}]
      [] k = "process_project_entries" ->
            [required |-> {"entries_created", "entries_failed", "entries_skipped"},
             optional |-> {}]
      [] k \in {"generate_search_params", "generate_character_card"} ->
            [required |-> {}, optional |-> {}]
      [] k = "fetch_source_content" ->
            [required |-> {"sources_fetched", "sources_failed"}, optional |-> {}]
      [] k = "regenerate_character_field" ->
            [required |-> {"field_regenerated"}, optional |-> {}]

\* The document a model is stored as: every field, set or defaulted.
Dumped(f) == Object(f.required \cup f.optional)

StoredPayloads == {NotObject} \cup {Dumped(PayloadFields(k)) : k \in TaskName}
StoredResults == {Null, NotObject} \cup {Dumped(ResultFields(k)) : k \in TaskName}
Rows == [task_name : TaskName, status : JobStatus,
         payload : StoredPayloads, result : StoredResults]

\* model_validate: a ValidationError (here Null, what its except clause
\* stores) unless the document is an object with every required field; the
\* model keeps the fields it declares.
model_validate(f, doc) ==
    IF doc.kind = "object" /\ f.required \subseteq doc.keys
      THEN Object(doc.keys \cap (f.required \cup f.optional))
      ELSE Null

\* BackgroundJob(**db_row): payload is a required TaskPayload, result is an
\* Optional[TaskResult].
BackgroundJob(row) ==
    IF row.payload = Null
      THEN [outcome |-> "raised"]            \* pydantic ValidationError
      ELSE [outcome |-> "returned", job |-> row]

deserialize_job(row) ==
    LET payload == IF row.payload = Null THEN Null
                   ELSE model_validate(PayloadFields(row.task_name), row.payload)
        result == IF row.result = Null THEN Null
                  ELSE model_validate(ResultFields(row.task_name), row.result)
    IN BackgroundJob([row EXCEPT !.payload = payload, !.result = result])

InitRead ==
    /\ InitButHierarchy
    /\ sources = {}
    /\ edges = {}
    /\ db_row \in Rows

\* get_background_job: SELECT the row, _deserialize_job.
get_background_job ==
    /\ readJob' = deserialize_job(db_row)
    /\ UNCHANGED <<dbVars, recovered, crashes, holding, handlerVars, cancelReq, handed,
                   jobKind, jobError, exc, waited, crawlVars, submission, db_row,
                   fetch>>

NextRead == get_background_job

SpecRead == InitRead /\ [][NextRead]_vars

\* The event loop runs every coroutine that is ready: the worker and the
\* running handler take their next step, and the poller its next read.
EngineProgress ==
    \/ Recover
    \/ run_worker
    \/ process_background_job
    \/ SelectLinks
    \/ MarkProcessing
    \/ \E l \in Links : TaskStart(l)
    \/ \E l \in Links : TaskRateLimited(l)
    \/ \E l \in Links : process_single_link_io(l)
    \/ LoopNext
    \/ BatchCommit
    \/ UpdateProgress
    \/ Finalize
    \/ CrawlInit
    \/ CrawlLoop
    \/ CrawlFetch
    \/ GenerateSelectors
    \/ CrawlPage
    \/ CrawlSourceDone
    \/ CrawlFinalize
    \/ ModelCall
    \/ SimpleReturns
    \/ ExceptHandler

SpecEngineLive ==
    /\ Init
    /\ [][NextEngine]_vars
    /\ WF_vars(poll_for_cancellation)
    /\ WF_vars(EngineProgress)

(* ======================== fetch specification ========================== *)
\* fetch_source_content, source by source. (In the worker and the engine
\* specifications it is one of the one-pass handlers.)

\* payload.source_ids: a list, possibly empty, possibly naming a source twice
\* or one that does not exist.
FetchPayloads == UNION {[1..n -> Urls] : n \in 0..MaxFetch}

\* create_fetch_content_job, with the sources the project has.
create_fetch_content_job ==
    /\ recovered
    /\ create_simple_job(TheJob, "fetch_source_content")
    /\ \E ids \in FetchPayloads :
          fetch' = [source_ids |-> ids, i |-> 1, processed_count |-> 0,
                    failed_count |-> 0, total_items |-> -1, result |-> NoFetchResult]
    /\ \E have \in SUBSET Urls : sources' = have
    /\ UNCHANGED <<storeFrame, linkStatus, recovered, crashes, holding, cancelReq, handed>>
    /\ UNCHANGED <<jobError, exc, waited, linkUrls, withSelectors, edges, crawlResult,
                   crawlProgress, limits, crawlLocals, crawlHist, submission, db_row,
                   readJob>>

fetchFrame == <<jobPayload, jobResult, projectExists, projectStatus, linkStatus,
                linkEntry, entryCount, recovered, crashes, selected, event, poller,
                sem, task, taskResult, doneQ, batch_results, total_processed, counts,
                writes, cancelReq, handed, jobKind, jobError, crawlVars, submission,
                db_row, readJob>>

\* The first transaction: total_items = len(source_ids), processed_items = 0.
FetchInit ==
    /\ hpc = "g_run"
    /\ jobKind[holding[Worker]] = "fetch_source_content"
    /\ jobProcessed' = 0
    /\ fetch' = [fetch EXCEPT !.total_items = Len(fetch.source_ids)]
    /\ hpc' = "f_loop"
    /\ UNCHANGED <<fetchFrame, jobStatus, holding, dispatch, exc, waited>>

\* `if not source: failed_count += 1; continue`
SourceMissingUncounted(f) == f
SourceMissing(f) == [f EXCEPT !.failed_count = @ + 1]

\* One iteration of `for source_id in source_ids`: the source is missing, or
\* the fetch or the update of the source raises, or the content is stored;
\* then `finally` writes processed_items. (The image extraction and its
\* failures change neither count.)
FetchSource ==
    /\ hpc = "f_loop"
    /\ fetch.i <= Len(fetch.source_ids)
    /\ \E after \in
          (IF fetch.source_ids[fetch.i] \notin sources
             THEN {SourceMissing(fetch)}
             ELSE {[fetch EXCEPT !.processed_count = @ + 1],
                   [fetch EXCEPT !.failed_count = @ + 1]}) :
          /\ fetch' = [after EXCEPT !.i = @ + 1]
          /\ jobProcessed' = after.processed_count + after.failed_count
    /\ hpc' = "f_loop"
    /\ UNCHANGED <<fetchFrame, jobStatus, holding, dispatch, exc, waited>>

\* A job update outside the per-source try raises (the first transaction, the
\* one of a `finally`, the last one).
FetchRaise ==
    /\ \/ hpc = "g_run" /\ jobKind[holding[Worker]] = "fetch_source_content"
       \/ hpc = "f_loop"
    /\ exc' = "Failed to update job"
    /\ hpc' = "except"
    /\ UNCHANGED <<fetchFrame, jobStatus, jobProcessed, holding, dispatch, waited, fetch>>

\* After the loop (and the best-effort avatar update): completed, with the
\* two counts as the result.
FetchFinish ==
    /\ hpc = "f_loop"
    /\ fetch.i > Len(fetch.source_ids)
    /\ jobStatus' = update_background_job(jobStatus, holding[Worker], "completed")
    /\ fetch' = [fetch EXCEPT !.result = [sources_fetched |-> fetch.processed_count,
                                          sources_failed |-> fetch.failed_count]]
    /\ DispatchEnds("handler_returned")
    /\ UNCHANGED <<fetchFrame, jobProcessed, exc, waited>>

NextFetch ==
    \/ create_fetch_content_job
    \/ CancelRequest
    \/ Recover
    \/ run_worker
    \/ process_background_job
    \/ FetchInit
    \/ FetchSource
    \/ FetchRaise
    \/ FetchFinish
    \/ ExceptHandler

SpecFetch == Init /\ [][NextFetch]_vars

(* ====================== progress specification ========================= *)
\* The crawl handlers over every payload the request accepts, the lists that
\* name a source twice included.

create_crawl_job_listed(k) == CrawlJobCreated(k, CrawlPayloads \cup RepeatingPayloads)

NextProgress ==
    \/ \E k \in CrawlTasks : create_crawl_job_listed(k)
    \/ CancelRequest
    \/ Recover
    \/ run_worker
    \/ process_background_job
    \/ poll_for_cancellation
    \/ CrawlRaise
    \/ CrawlInit
    \/ CrawlLoop
    \/ CrawlFetch
    \/ GenerateSelectors
    \/ CrawlPage
    \/ CrawlSourceDone
    \/ CrawlSourceRaise
    \/ CrawlFinalize
    \/ ExceptHandler

SpecProgress == Init /\ [][NextProgress]_vars

(* ================== ancestor walk specification ======================== *)
\* create_discover_and_crawl_job with its ancestor walk taken one loop
\* iteration per step, over the hierarchies crawl runs record. The visited set
\* of a crawl is per run: a run over A that finds the url of B records
\* A -> B, and a later run over B that finds the url of A records B -> A.

MaxEdges == 3
RecordedHierarchies ==
    {h \in SUBSET {e \in SourceIds \X SourceIds : e[1] # e[2]} :
        Cardinality(h) <= MaxEdges}

\* data.source_ids: a list, min_length 1
SubmittedLists == UNION {[1..n -> SourceIds] : n \in 1..MaxPayload}

InitWalk ==
    /\ InitButHierarchy
    /\ sources = SourceIds
    /\ edges \in RecordedHierarchies
    /\ db_row = NoRow

walkFrame == <<jobProcessed, jobResult, projectExists, projectStatus, linkStatus,
               linkEntry, entryCount, recovered, crashes, holding, handlerVars,
               cancelReq, handed, jobError, exc, waited, crawlVars, db_row,
               readJob, fetch>>

\* The request: the hierarchy rows are read, child_to_parent_map and
\* selected_ids_set are built and the for loop takes the first source id.
WalkBegin(ids) ==
    /\ recovered
    /\ submission.outcome # "walking"
    /\ \E j \in Jobs : jobStatus[j] = "none"
    /\ \E pm \in ChildToParentMaps(edges) :
          submission' = [outcome |-> "walking", ids |-> ids,
                         child_to_parent_map |-> pm,
                         selected_ids_set |-> {ids[i] : i \in 1..Len(ids)},
                         i |-> 1, current_id |-> ids[1]]
    /\ UNCHANGED <<jobStatus, jobKind, jobPayload>>
    /\ UNCHANGED walkFrame

\* `while current_id in child_to_parent_map`, one iteration: HTTPException
\* 400 when the parent is selected, else the walk moves to the parent.
WalkParent ==
    /\ submission.outcome = "walking"
    /\ submission.current_id \in DOMAIN submission.child_to_parent_map
    /\ LET parent_id == submission.child_to_parent_map[submission.current_id]
       IN submission' =
            IF parent_id \in submission.selected_ids_set
              THEN [outcome |-> "rejected", ids |-> submission.ids]
              ELSE [submission EXCEPT !.current_id = parent_id]
    /\ UNCHANGED <<jobStatus, jobKind, jobPayload>>
    /\ UNCHANGED walkFrame

\* The while test fails: the for loop takes the next source id, and after the
\* last one the job row is created.
WalkNextSource ==
    /\ submission.outcome = "walking"
    /\ submission.current_id \notin DOMAIN submission.child_to_parent_map
    /\ IF submission.i < Len(submission.ids)
         THEN /\ submission' = [submission EXCEPT
                                   !.i = @ + 1,
                                   !.current_id = submission.ids[submission.i + 1]]
              /\ UNCHANGED <<jobStatus, jobKind, jobPayload>>
         ELSE \E j \in Jobs :
              /\ create_background_job(j)
              /\ jobKind' = [jobKind EXCEPT ![j] = "discover_and_crawl_sources"]
              /\ jobPayload' = IF j = TheJob THEN submission.ids ELSE jobPayload
              /\ submission' = [outcome |-> "created", ids |-> submission.ids]
    /\ UNCHANGED walkFrame

NextWalk ==
    \/ Recover
    \/ \E ids \in SubmittedLists : WalkBegin(ids)
    \/ WalkParent
    \/ WalkNextSource

SpecWalk == InitWalk /\ [][NextWalk]_vars

\* The handler is a coroutine of the server's event loop and its loop holds
\* no await: once entered it keeps running.
SpecWalkLive == SpecWalk /\ WF_vars(WalkParent) /\ WF_vars(WalkNextSource)

(* ====================== registry specification ========================= *)
\* The worker specification with the endpoint of the ninth task of the
\* registry: the task names of the enumeration, of the registry, of the two
\* decoder maps and of the endpoints.

\* payload_map and result_map of deserialize_job
payload_map == [k \in TaskName |-> PayloadFields(k)]
result_map == [k \in TaskName |-> ResultFields(k)]

\* The task names the create_*_job endpoints of the controller write.
EndpointTasks == TaskName \cup {"generate_lorebook_entries"}

\* create_generate_lorebook_entries_job: the row is made with
\* TaskName.GENERATE_LOREBOOK_ENTRIES, an AttributeError when the enumeration
\* has no such member.
create_generate_lorebook_entries_job ==
    /\ recovered
    /\ projectExists
    /\ IF "generate_lorebook_entries" \in TaskName
         THEN /\ \E j \in Jobs : create_simple_job(j, "generate_lorebook_entries")
              /\ submission' = [outcome |-> "created"]
         ELSE /\ submission' = [outcome |-> "raised", error |-> "AttributeError"]
              /\ UNCHANGED <<jobStatus, jobKind>>
    /\ UNCHANGED <<storeFrame, linkStatus, recovered, crashes, holding, cancelReq, handed>>
    /\ UNCHANGED <<jobError, exc, waited, crawlVars, db_row, readJob, fetch>>

NextRegistry ==
    \/ NextWorker
    \/ create_generate_lorebook_entries_job

SpecRegistry == Init /\ [][NextRegistry]_vars

(* =============================== claims ================================ *)

DispatchEnded == dispatch \in {"handler_returned", "handler_raised", "no_project"}
Running(l) == task[l] \in {"limited", "io"}
SumOf(r) == r.created + r.skipped + r.failed
StatusOf(o) == IF o = "success" THEN "completed" ELSE o

\* C1: a claim hands a job to a caller only if the job was pending and nobody
\* has received it since it became pending, and the same step sets its status
\* to in_progress: no job is handed to two callers.
C1_AtomicClaim ==
    [][\A c \in Callers :
         (holding[c] = NoJob /\ holding'[c] # NoJob) =>
            /\ jobStatus[holding'[c]] = "pending"
            /\ jobStatus'[holding'[c]] = "in_progress"
            /\ handed[holding'[c]] = {}
            /\ handed'[holding'[c]] = {c}]_vars

\* Two callers have claimed concurrently and hold different in_progress jobs.
C1_Witness ==
    /\ holding[1] # NoJob
    /\ holding[2] # NoJob
    /\ holding[1] # holding[2]
    /\ jobStatus[holding[1]] = "in_progress"
    /\ jobStatus[holding[2]] = "in_progress"

LegalTransitions ==
    {<<"pending", "in_progress">>, <<"in_progress", "completed">>,
     <<"in_progress", "failed">>, <<"in_progress", "cancelling">>,
     <<"cancelling", "canceled">>, <<"pending", "canceled">>}

\* C2: outside the recovery pass, every change of a job's stored status is a
\* transition of the legal graph.
C2_LegalTransitions ==
    [][\A j \in Jobs :
         (/\ jobStatus[j] # "none"
          /\ jobStatus'[j] # jobStatus[j]
          /\ ~(~recovered /\ recovered'))
         => <<jobStatus[j], jobStatus'[j]>> \in LegalTransitions]_vars

\* C3: once the dispatch of a claimed job has ended, the job is not
\* in_progress.
C3_NotInProgressAfterDispatch ==
    DispatchEnded => jobStatus[TheJob] # "in_progress"

\* C4: a cancel accepted while the job was in_progress ends with the job
\* canceled and no link processing, once the handler has returned.
C4_CancelYieldsCanceled ==
    (cancelReq /\ dispatch = "handler_returned") =>
        /\ jobStatus[TheJob] = "canceled"
        /\ \A l \in Links : linkStatus[l] # "processing"

\* C5: every completed link references an existing lorebook entry, in every
\* state, those after a crash inside a batch and the recovery included.
C5_CompletedHasEntry ==
    \A l \in Links : linkStatus[l] = "completed" => linkEntry[l] \in 1..entryCount[l]

\* The process crashed with a batch transaction open, after an earlier batch
\* had committed, and the recovery pass has run.
C5_Witness ==
    /\ dispatch = "crashed_in_batch"
    /\ recovered
    /\ \E l \in Links : linkStatus[l] = "completed"
    /\ \E l \in Links : linkStatus[l] = "pending"

\* C6: once the handler of the job has ended (returned or raised) and the job
\* is in a terminal status, none of the links it selected is processing.
C6_NoProcessingWhenTerminal ==
    (DispatchEnded /\ jobStatus[TheJob] \in TerminalStatus) =>
        \A l \in selected : linkStatus[l] # "processing"

\* C7: the result of a run that was not canceled counts every selected link
\* once: created + skipped + failed = N.
C7_CountsAddUp ==
    (dispatch = "handler_returned" /\ ~event) =>
        /\ jobResult # NoResult
        /\ SumOf(jobResult) = Cardinality(selected)

\* A run over every link, with more links than a batch holds, ended with each
\* of the three outcomes counted.
C7_Witness ==
    /\ dispatch = "handler_returned"
    /\ ~event
    /\ selected = Links
    /\ jobResult.created >= 1
    /\ jobResult.skipped >= 1
    /\ jobResult.failed >= 1

\* C8: no link is ever written by two batches, and when a run that was not
\* canceled has returned, every selected link has one outcome, was written by
\* one batch and carries the status of its outcome.
C8_ExactlyOnce ==
    /\ \A l \in Links : writes[l] <= 1
    /\ \A l \in Links \ selected : writes[l] = 0
    /\ (dispatch = "handler_returned" /\ ~event) =>
          \A l \in selected :
             /\ taskResult[l] \in Outcomes
             /\ writes[l] = 1
             /\ linkStatus[l] = StatusOf(taskResult[l])

\* A run over every link has returned with every link written once and
\* different outcomes among them.
C8_Witness ==
    /\ dispatch = "handler_returned"
    /\ ~event
    /\ selected = Links
    /\ \A l \in Links : writes[l] = 1
    /\ jobProcessed = MaxLinks
    /\ linkStatus[MaxLinks] = "completed"
    /\ linkStatus[1] = "skipped"
    /\ jobResult.created = 1

\* C9: at most CONCURRENT_REQUESTS tasks are between acquiring the semaphore
\* and the end of their fetch + model call.
C9_BoundedConcurrency ==
    Cardinality({l \in Links : Running(l)}) <= CONCURRENT_REQUESTS

\* The limit is reached while another task waits for a permit.
C9_Witness ==
    /\ Cardinality({l \in Links : Running(l)}) = CONCURRENT_REQUESTS
    /\ \E l \in Links : task[l] = "created"
    /\ ~event

\* C10: the recovery pass sets every in_progress or cancelling job and every
\* processing link to pending and changes no other status.
C10_RecoveryPass ==
    [][(~recovered /\ recovered') =>
         /\ \A j \in Jobs :
              jobStatus'[j] = IF jobStatus[j] \in {"in_progress", "cancelling"}
                                THEN "pending" ELSE jobStatus[j]
         /\ \A l \in Links :
              linkStatus'[l] = IF linkStatus[l] = "processing"
                                 THEN "pending" ELSE linkStatus[l]
         /\ \A j \in Jobs : jobStatus'[j] \notin {"in_progress", "cancelling"}
         /\ \A l \in Links : linkStatus'[l] # "processing"]_vars

\* After a crash in the middle of a run the recovery pass has run: the job,
\* which had made progress, is pending again, next to completed links.
C10_Witness ==
    /\ crashes >= 1
    /\ recovered
    /\ jobStatus[TheJob] = "pending"
    /\ jobProcessed > 0
    /\ \E l \in Links : linkStatus[l] = "completed"
    /\ \E l \in Links : linkStatus[l] = "pending"

\* C11: a cancel request changes a job's status only from pending to canceled
\* or from in_progress to cancelling; it makes no other status change.
C11_CancelTransitions ==
    [][CancelRequest =>
         \/ jobStatus[TheJob] = "pending" /\ jobStatus'[TheJob] = "canceled"
         \/ jobStatus[TheJob] = "in_progress" /\ jobStatus'[TheJob] = "cancelling"]_vars

\* C12: when the crawl of a source returns, every url that one of its pages
\* matched by both a content and a category selector is among the run's
\* content links (new or existing) and no child source was linked or enqueued
\* for it.
C12_BothIsContent ==
    [][CrawlSourceDone =>
         \A u \in cur.both :
            /\ u \in all_new_links_this_job' \cup all_existing_links_found_again'
            /\ <<cur.src, u>> \notin cur.edges]_vars

C14_PageLoopBounded ==
    /\ [](cur # NoCur => cur.pages <= limits[cur.src].pages)
    /\ [][(hpc = "c_page" /\ hpc' = "c_page" /\ cur' # cur) =>
              (cur'.pages = cur.pages + 1 \/ cur'.url = NoUrl)]_vars

\* The page limit stopped a crawl whose pagination led back to the first page.
C14_Witness ==
    /\ hpc = "c_page"
    /\ cur.pages = limits[cur.src].pages
    /\ cur.pages >= 2
    /\ cur.url = cur.src

\* C15: the end-to-end scenario completes with 3 new links, 2 existing links,
\* 2 new sources and 1 selector generation.
C15_Scenario ==
    (scenario /\ crawlResult.status = "completed") =>
        /\ Cardinality(crawlResult.new_links) = 3
        /\ Cardinality(crawlResult.existing_links) = 2
        /\ crawlResult.new_sources_created = 2
        /\ crawlResult.selectors_generated = 1

\* C16: no two jobs are in_progress (or cancelling with a live handler) at
\* the same time.
C16_SingleActiveJob ==
    Cardinality({j \in Jobs :
                   \/ jobStatus[j] = "in_progress"
                   \/ jobStatus[j] = "cancelling" /\ holding[Worker] = j}) <= 1

\* C17: when a handler ends with an unhandled exception, the job's stored
\* status is failed and its error_message is the exception's message, for
\* every task kind and wherever in the handler the exception was raised.
C17_RaisedMeansFailed ==
    dispatch = "handler_raised" =>
        /\ exc # NoException
        /\ jobStatus[TheJob] = "failed"
        /\ jobError[TheJob] = exc

\* A link-processing job failed in its second batch, after a committed one.
C17_Witness ==
    /\ dispatch = "handler_raised"
    /\ jobKind[TheJob] = "process_project_entries"
    /\ jobStatus[TheJob] = "failed"
    /\ jobError[TheJob] = "Failed to create lorebook entry"
    /\ \E l \in Links : linkStatus[l] = "completed"

\* C18: the steps that end a job as failed (the exception leaving the handler
\* and the except clause) or as canceled revert nothing committed earlier in
\* the run: a link that is completed, skipped or failed keeps its status and
\* its entry, and the sources, selectors and hierarchy edges stay as written.
C18_Terminating ==
    \/ hpc' = "except"
    \/ hpc = "except"
    \/ /\ jobStatus'[TheJob] \in {"failed", "canceled"}
       /\ jobStatus[TheJob] \notin {"failed", "canceled"}

C18_NoRollback ==
    [][C18_Terminating =>
         /\ \A l \in Links :
               linkStatus[l] \in {"completed", "skipped", "failed"} =>
                   /\ linkStatus'[l] = linkStatus[l]
                   /\ linkEntry'[l] = linkEntry[l]
         /\ entryCount' = entryCount
         /\ sources' = sources
         /\ withSelectors' = withSelectors
         /\ edges' = edges]_vars

\* A link-processing job was canceled by its finalization after a committed
\* batch had completed a link and while another link was left unprocessed.
C18_Witness ==
    /\ jobKind[TheJob] = "process_project_entries"
    /\ jobStatus[TheJob] = "canceled"
    /\ dispatch = "handler_returned"
    /\ event
    /\ \E l \in Links : linkStatus[l] = "completed" /\ linkEntry[l] # NoEntry
    /\ \E l \in selected : linkStatus[l] = "pending"

\* C19: no handler starts a model call without having completed a
\* rate-limiter wait for the project first.
C19_CallsAreGated ==
    [][/\ ModelCall => waited
       /\ GenerateSelectors => waited
       /\ \A l \in Links :
             (task[l] # "io" /\ task'[l] = "io") => task[l] = "limited"]_vars

\* The ancestors of a source over all hierarchy rows.
RECURSIVE AncestorsOf(_, _)
AncestorsOf(S, n) ==
    IF n = 0 THEN {}
    ELSE LET ps == {e[1] : e \in {e \in edges : e[2] \in S}}
         IN ps \cup AncestorsOf(ps, n - 1)

SelectsAncestorPair(ids) ==
    \E d \in ids : AncestorsOf({d}, MaxSources) \cap ids # {}

\* C20: a discover-and-crawl submission that selects a source together with
\* one of its ancestors (over all hierarchy rows, also when a source has
\* several parents) is rejected and creates no job; any other submission
\* creates exactly one pending job.
C20_SubmissionCheck ==
    [][\A ids \in Submissions : create_discover_and_crawl_job(ids) =>
          IF SelectsAncestorPair(ids)
            THEN /\ submission'.outcome = "rejected"
                 /\ jobStatus' = jobStatus
            ELSE /\ submission'.outcome = "created"
                 /\ \E j \in Jobs : /\ jobStatus[j] = "none"
                                    /\ jobStatus' = [jobStatus EXCEPT ![j] = "pending"]]_vars

\* What a column reads as when a failed decode only degrades the field.
Degraded(f, doc) == IF doc = Null THEN Null ELSE model_validate(f, doc)

\* C21: reading a job whose stored payload or result does not decode under
\* the schema of its task returns the job with that field null and every
\* other field as stored; the read does not raise.
C21_ReadDegrades ==
    readJob # NoRead =>
        /\ readJob.outcome = "returned"
        /\ readJob.job.task_name = db_row.task_name
        /\ readJob.job.status = db_row.status
        /\ readJob.job.payload = Degraded(PayloadFields(db_row.task_name), db_row.payload)
        /\ readJob.job.result = Degraded(ResultFields(db_row.task_name), db_row.result)

\* C22: a job whose status is completed, failed or canceled keeps that
\* status in every later step, whatever cancel requests and final status
\* writes of the handler interleave.
C22_TerminalIsFinal ==
    [][\A j \in Jobs : jobStatus[j] \in TerminalStatus => jobStatus'[j] = jobStatus[j]]_vars

\* C23: for a running job of any task kind a stored status of cancelling is
\* eventually detected and the job is finalized as canceled: a job whose
\* cancel was requested while in_progress does not end completed and does
\* not stay cancelling.
C23_CancelIsDetected ==
    /\ (jobStatus[TheJob] = "cancelling" /\ holding[Worker] = TheJob)
          ~> (jobStatus[TheJob] = "canceled")
    /\ [][jobStatus[TheJob] = "cancelling" => jobStatus'[TheJob] # "completed"]_vars

\* C24: once the cancellation signal is set the handler issues no new work:
\* no link task begins its fetch / model call, no further source is dequeued
\* to be crawled, and the handler's finalization writes canceled.
C24_NoNewWorkAfterSignal ==
    [][event =>
         /\ \A l \in Links : task'[l] = "io" => task[l] = "io"
         /\ cur = NoCur => cur' = NoCur
         /\ (hpc \in {"finalize", "c_final"} /\ hpc' = "idle") =>
                jobStatus'[TheJob] = "canceled"]_vars

\* A crawl was canceled with a source still queued, after it had crawled one.
C24_Witness ==
    /\ jobKind[TheJob] = "discover_and_crawl_sources"
    /\ hpc = "c_final"
    /\ event
    /\ queue # <<>>
    /\ withSelectors # {}

\* The selected links with a committed outcome in this run.
Committed == {l \in selected : writes[l] > 0}

\* C25: the progress of a link-processing job is written only after a batch
\* has committed: processed_items is at most the number of selected links
\* with a committed outcome, it never decreases, and in a run without
\* cancellation over N links it goes up by the batch size per update and
\* ends at N (10, 20, 25 for 25 links and batches of 10).
C25_ProgressFollowsCommits ==
    /\ [](hpc \in {"loop", "batch", "progress", "finalize"} =>
             jobProcessed <= Cardinality(Committed))
    /\ [][jobProcessed' >= jobProcessed]_vars
    /\ [][(UpdateProgress /\ ~event) =>
             jobProcessed' =
                IF jobProcessed + DB_WRITE_BATCH_SIZE <= Cardinality(selected)
                  THEN jobProcessed + DB_WRITE_BATCH_SIZE
                  ELSE Cardinality(selected)]_vars

\* C25, amended: as above, but processed_items never decreases within a
\* run; the initial transaction of a run (the run of a recovered job
\* included) writes 0.
C25_ProgressFollowsCommitsInRun ==
    /\ [](hpc \in {"loop", "batch", "progress", "finalize"} =>
             jobProcessed <= Cardinality(Committed))
    /\ [][jobProcessed' >= jobProcessed \/ MarkProcessing]_vars
    /\ [][(UpdateProgress /\ ~event) =>
             jobProcessed' =
                IF jobProcessed + DB_WRITE_BATCH_SIZE <= Cardinality(selected)
                  THEN jobProcessed + DB_WRITE_BATCH_SIZE
                  ELSE Cardinality(selected)]_vars

\* A run without cancellation over three links has written its progress
\* after a full batch and after the last, partial one.
C25_Witness ==
    /\ hpc = "finalize"
    /\ ~event
    /\ Cardinality(selected) = DB_WRITE_BATCH_SIZE + 1
    /\ jobProcessed = Cardinality(selected)
    /\ Cardinality(Committed) = Cardinality(selected)

\* C26: a Phase 2 batch holds at most DB_WRITE_BATCH_SIZE outcomes and is
\* applied in one transaction: when the batch does not commit (a write of it
\* raises, or the process crashes) no link changes status and no entry
\* persists; a commit writes the outcomes of the one open batch only.
C26_BatchIsAtomic ==
    /\ [](Len(batch_results) <= DB_WRITE_BATCH_SIZE)
    /\ [][(hpc = "batch" /\ (BatchRaise \/ CrashRestart)) =>
             /\ linkStatus' = linkStatus
             /\ linkEntry' = linkEntry
             /\ entryCount' = entryCount]_vars
    /\ [][BatchCommit =>
             \A l \in Links :
                (linkStatus'[l] # linkStatus[l] \/ entryCount'[l] # entryCount[l]) =>
                    \E i \in 1..Len(batch_results) : batch_results[i].link = l]_vars

\* A write of a full batch has raised: its links are still processing.
C26_Witness ==
    /\ hpc = "except"
    /\ Len(batch_results) = DB_WRITE_BATCH_SIZE
    /\ \A i \in 1..Len(batch_results) :
          /\ linkStatus[batch_results[i].link] = "processing"
          /\ linkEntry[batch_results[i].link] = NoEntry

\* The selected links that carry a status.
WithStatus(ls, st) == Cardinality({l \in selected : ls[l] = st})

\* C27: a link-processing job that finishes without cancellation is
\* completed, its result holds the created / skipped / failed counts of the
\* run, and the project becomes completed when no link failed, else failed;
\* without a link to process the job completes at once with zero counts and
\* the project completed.
C27_FinishWithoutCancel ==
    [][(hpc \in {"select", "finalize"} /\ dispatch' = "handler_returned" /\ ~event) =>
         /\ jobStatus'[TheJob] = "completed"
         /\ projectStatus' = IF jobResult'.failed = 0 THEN "completed" ELSE "failed"
         /\ IF hpc = "select"
              THEN /\ links_to_process = {}
                   /\ jobResult' = ZeroCounts
              ELSE /\ jobResult' = counts
                   /\ jobResult'.created = WithStatus(linkStatus', "completed")
                   /\ jobResult'.skipped = WithStatus(linkStatus', "skipped")
                   /\ jobResult'.failed = WithStatus(linkStatus', "failed")]_vars

\* A run over several links ended with one entry created and one link failed.
C27_Witness ==
    /\ dispatch = "handler_returned"
    /\ ~event
    /\ jobStatus[TheJob] = "completed"
    /\ jobResult.created >= 1
    /\ jobResult.failed >= 1
    /\ projectStatus = "failed"


\* C28: in a crawl job a failed page fetch ends the page loop of the source
\* being crawled and nothing else (the source is not failed, what its earlier
\* pages found is kept); an error that fails a source (its first fetch, its
\* selector generation, a call of its crawl) adds that source's id to the
\* failed ones and returns to the queue loop, with the queue, the job row and
\* the run's totals of links as they were; no step of a source sends the
\* handler to its exception path, and a run whose event is unset ends
\* completed and reports the failed sources.
C28_PageFetchFailed ==
    hpc = "c_page" /\ hpc' = "c_page" /\ cur' # cur /\ cur'.pages = cur.pages
C28_SourceClosed == hpc \in {"c_fetch", "c_call", "c_page"} /\ hpc' = "c_loop"
C28_FailuresAreLocal ==
    [][/\ C28_PageFetchFailed =>
            /\ cur' = [cur EXCEPT !.url = NoUrl]
            /\ failed_source_ids' = failed_source_ids
            /\ queue' = queue
            /\ jobStatus' = jobStatus
       /\ (C28_SourceClosed /\ hpc \in {"c_fetch", "c_call"}) =>
            failed_source_ids' = failed_source_ids \cup {cur.src}
       /\ (C28_SourceClosed /\ failed_source_ids' # failed_source_ids) =>
            /\ failed_source_ids' = failed_source_ids \cup {cur.src}
            /\ Len(queue') >= Len(queue)
            /\ SubSeq(queue', 1, Len(queue)) = queue
            /\ jobStatus' = jobStatus
            /\ all_new_links_this_job' = all_new_links_this_job
            /\ all_existing_links_found_again' = all_existing_links_found_again
       /\ hpc \in {"c_fetch", "c_call", "c_page"} => hpc' # "except"
       /\ (hpc = "c_final" /\ hpc' # "c_final" /\ ~event) =>
            /\ jobStatus'[TheJob] = "completed"
            /\ crawlResult'.status = "completed"
            /\ crawlResult'.sources_failed = failed_source_ids]_vars

\* A source has failed, the loop went on to another source, and the fetch of
\* that source's first page failed.
C28_Witness ==
    /\ hpc = "c_page"
    /\ cur.pages = 0
    /\ cur.url = NoUrl
    /\ failed_source_ids # {}
    /\ cur.src \notin failed_source_ids


\* C29: a page iteration of a source whose pagination selector is invalid
\* skips the selector: the source stays in its crawl with what the pages so
\* far found and is not added to the failed sources.
C29_InvalidSelectorSkipped ==
    [][(CrawlPage /\ cur.pagination = "invalid") =>
          /\ cur' # NoCur
          /\ cur'.src = cur.src
          /\ failed_source_ids' = failed_source_ids]_vars


\* C30 as stated: on the first page of a source below its depth limit every
\* category url the page yields gets a parent -> child edge and is enqueued
\* at depth + 1.
C30_EveryCategoryUrlEnqueued ==
    [][(hpc = "c_page" /\ hpc' = "c_page" /\ cur.pages = 0 /\ cur'.pages = 1
          /\ cur.depth < limits[cur.src].depth) =>
          \A c \in cur'.category :
              /\ <<cur.src, c>> \in cur'.edges
              /\ \E i \in 1..Len(queue') : queue'[i] = <<c, cur.depth + 1>>]_vars

\* C30: a page iteration enqueues and creates only on the first page of a
\* source whose depth is below its max_crawl_depth, and then exactly for the
\* category urls no source of the run has visited: each is marked visited,
\* enqueued once at depth + 1 behind the queue, given a parent -> child edge,
\* and created unless a source with that url exists; when the crawl commits,
\* a created source holds its parent's settings and a reused one keeps its
\* own.
C30_Fresh ==
    IF cur.pages = 0 /\ cur.depth < limits[cur.src].depth
      THEN cur'.category \ visited_source_urls ELSE {}
C30_ChildrenOnFirstPage ==
    [][/\ (hpc = "c_page" /\ (queue' # queue \/ visited_source_urls' # visited_source_urls)) =>
            cur.pages = 0 /\ cur.depth < limits[cur.src].depth
       /\ (hpc = "c_page" /\ hpc' = "c_page" /\ cur'.pages = cur.pages + 1) =>
            /\ visited_source_urls' = visited_source_urls \cup C30_Fresh
            /\ Len(queue') = Len(queue) + Cardinality(C30_Fresh)
            /\ SubSeq(queue', 1, Len(queue)) = queue
            /\ {queue'[i] : i \in (Len(queue) + 1)..Len(queue')} =
                  {<<c, cur.depth + 1>> : c \in C30_Fresh}
            /\ cur'.edges = cur.edges \cup {<<cur.src, c>> : c \in C30_Fresh}
            /\ cur'.created = cur.created \cup (C30_Fresh \ sources)
       /\ CrawlSourceDone =>
            /\ sources' = sources \cup cur.created
            /\ edges' = edges \cup cur.edges
            /\ \A u \in sources : limits'[u] = limits[u]
            /\ \A u \in cur.created : limits'[u] = limits[cur.src]]_vars

\* The child a crawl created is being crawled at depth 2 with its parent's
\* settings, past its first page.
C30_Witness ==
    /\ hpc = "c_page"
    /\ cur.src = 2
    /\ cur.depth = 2
    /\ cur.pages >= 1
    /\ total_new_sources = 1
    /\ <<1, 2>> \in edges
    /\ limits[2] = limits[1]


\* C31: fetch_source_content takes the payload's source ids in order; each
\* iteration counts its source as fetched or, when the source is missing or
\* its fetch raises, as failed, and goes on to the next; after the k-th
\* source processed_items = k; the handler returns with the job completed and
\* sources_fetched + sources_failed equal to the number of ids in the payload.
C31_OneByOne ==
    [][/\ (hpc = "f_loop" /\ hpc' = "f_loop" /\ fetch' # fetch) =>
            /\ fetch'.i = fetch.i + 1
            /\ fetch'.processed_count + fetch'.failed_count = fetch.i
            /\ jobProcessed' = fetch.i
            /\ fetch.source_ids[fetch.i] \notin sources =>
                  fetch'.failed_count = fetch.failed_count + 1
       /\ (hpc = "f_loop" /\ dispatch' = "handler_returned") =>
            /\ jobStatus'[TheJob] = "completed"
            /\ fetch'.result.sources_fetched + fetch'.result.sources_failed =
                  Len(fetch.source_ids)
            /\ jobProcessed = Len(fetch.source_ids)]_vars

\* A job over three ids, one of them missing and one named twice, has
\* completed with a fetched and two failed sources.
C31_Witness ==
    /\ jobKind[TheJob] = "fetch_source_content"
    /\ jobStatus[TheJob] = "completed"
    /\ Len(fetch.source_ids) = 3
    /\ \E i \in 1..3 : fetch.source_ids[i] \notin sources
    /\ fetch.source_ids[1] = fetch.source_ids[3]
    /\ fetch.result.sources_fetched = 1
    /\ fetch.result.sources_failed = 2


\* C32: a rescan job never fetches a page for the model nor calls it, never
\* waits for the rate limit and counts no generated selectors; a queued
\* source without stored selectors is dequeued and skipped without being
\* crawled or reported as failed; a source that is crawled has stored
\* selectors; the result of the job has selectors_generated = 0.
C32_RescanCallsNoModel ==
    /\ []((hpc # "idle" /\ jobKind[TheJob] = "rescan_links") =>
            /\ hpc \notin {"c_fetch", "c_call"}
            /\ total_selectors_generated = 0
            /\ ~waited
            /\ cur # NoCur => cur.src \in withSelectors)
    /\ []((jobKind[TheJob] = "rescan_links" /\ crawlResult # NoCrawlResult) =>
            crawlResult.selectors_generated = 0)
    /\ [][(/\ jobKind[TheJob] = "rescan_links"
           /\ hpc = "c_loop"
           /\ queue # <<>>
           /\ queue' = Tail(queue)
           /\ Head(queue)[1] \notin withSelectors) =>
              /\ hpc' = "c_loop"
              /\ cur' = NoCur
              /\ failed_source_ids' = failed_source_ids]_vars

\* A rescan of two sources, one of them without stored selectors, has
\* completed with links found and no failed source.
C32_Witness ==
    /\ jobKind[TheJob] = "rescan_links"
    /\ jobStatus[TheJob] = "completed"
    /\ jobPayload = <<1, 2>>
    /\ withSelectors = {1}
    /\ crawlResult # NoCrawlResult
    /\ crawlResult.new_links # {}
    /\ crawlResult.sources_failed = {}
    /\ crawlResult.selectors_generated = 0


\* C33: the progress a crawl job has written never has processed_items above
\* total_items.
C33_ProcessedWithinTotal ==
    crawlProgress.processed_items <= crawlProgress.total_items


\* C34: within a run no source is in the queue twice, every queued source is
\* a visited one, and what a step appends to the queue was not visited
\* before the step.
C34_EnqueuedOnce ==
    /\ [](\A i, j \in 1..Len(queue) : i # j => queue[i][1] # queue[j][1])
    /\ [](\A i \in 1..Len(queue) : queue[i][1] \in visited_source_urls)
    /\ [][(hpc = "c_page" /\ Len(queue') > Len(queue)) =>
            \A i \in (Len(queue) + 1)..Len(queue') :
                queue'[i][1] \notin visited_source_urls]_vars


\* C35: the worker holds a job only after the recovery pass of the running
\* process has completed, and the pass leaves the status of a job the worker
\* holds, and the links that job marked processing, as they are.
C35_RecoveryBeforeWorker ==
    /\ [](holding[Worker] # NoJob => recovered)
    /\ [][(~recovered /\ recovered' /\ holding[Worker] # NoJob) =>
            /\ jobStatus'[holding[Worker]] = jobStatus[holding[Worker]]
            /\ linkStatus' = linkStatus]_vars


\* C36: once the handler of the job has ended (returned or raised) no
\* cancellation poller of it is running, and with the handler gone none polls a
\* job that is in a terminal status.
C36_PollerStops ==
    /\ dispatch \in {"handler_returned", "handler_raised"} => ~poller
    /\ (hpc = "idle" /\ jobStatus[TheJob] \in TerminalStatus) => ~poller


\* C37: once the link-processing job is in a terminal status and its handler
\* is gone, the project is no longer in status processing.
C37_ProcessingEndsWithJob ==
    (/\ jobKind[TheJob] = "process_project_entries"
     /\ jobStatus[TheJob] \in TerminalStatus
     /\ hpc = "idle") => projectStatus # "processing"


\* C38: when the handler finalizes the job as canceled, every link of the run
\* whose task returned an outcome has been written with it and is not reset to
\* pending; only links without an outcome go back to pending.
C38_OutcomesWrittenOnCancel ==
    [][(hpc = "finalize" /\ hpc' = "idle" /\ event /\ jobStatus'[TheJob] = "canceled") =>
         \A l \in selected :
            taskResult[l] \in Outcomes =>
               /\ linkStatus[l] = (IF taskResult[l] = "success" THEN "completed"
                                   ELSE taskResult[l])
               /\ linkStatus'[l] = linkStatus[l]]_vars


\* C39: every ancestor walk of a discover-and-crawl submission ends, by the
\* rejection or by the creation of the job, also over a hierarchy whose rows
\* form a cycle.
C39_WalkTerminates ==
    (submission.outcome = "walking") ~> (submission.outcome \in {"created", "rejected"})


\* C40: the registry and the enumeration agree: every key of JOB_HANDLERS is
\* a member of TaskName, every member has its handler and its payload and
\* result decoder, every task name an endpoint writes is a member, and so no
\* submission fails on the name and no dispatch fails for lack of a handler.
C40_RegistryAgrees ==
    /\ DOMAIN JOB_HANDLERS \subseteq TaskName
    /\ \A k \in TaskName : /\ k \in DOMAIN JOB_HANDLERS
                           /\ k \in DOMAIN payload_map
                           /\ k \in DOMAIN result_map
    /\ EndpointTasks \subseteq TaskName
    /\ submission.outcome # "raised"
    /\ exc # "No handler for task"

====
